---- MODULE Spec2Model ----
(***************************************************************************)
(* Model of the LinkedIn profile-updates collector                         *)
(* (src/fetch_linkedin_profile_updates.py): the JSON reconciliation        *)
(* helpers as operators over tagged Python values, and the pagination loop *)
(* of fetch_all_updates as a state machine.                                *)
(*                                                                         *)
(* Python values are tagged records: [t |-> tag, v |-> payload].  A Python *)
(* str is a sequence of one-character strings, a list is a sequence of     *)
(* values, a dict is a sequence of <<key, value>> pairs in insertion order *)
(* (keys are Python strs, unique).  A raised exception is [t |-> "raise"]. *)
(***************************************************************************)
EXTENDS Integers, Sequences, FiniteSets, TLC

VARIABLES
    call,               \* a call of a pure helper: the function and its arguments
    ret,                \* what the call returned, Pending before it ran
    pc,                 \* fetch_all_updates: "loop", "done", "raised"; "idle" when not run
    social_counts_only,             \* argument of fetch_all_updates
    organization_reactions_only,    \* argument of fetch_all_updates
    include_raw,                    \* argument of fetch_all_updates
    limit,              \* None or an int
    start,              \* the start argument
    count,              \* the page size
    cursor,             \* line 545
    pagination_token,   \* line 546
    seen_tokens,        \* line 547
    collected,          \* line 541
    seen,               \* line 542
    social_counts,      \* line 543
    org_reactions,      \* line 544
    requests,           \* history: the fetches issued, in order
    pagelog,            \* history: per fetched page, what it held and what was folded
    stop,               \* history: which break left the loop
    result              \* the returned list, when pc = "done"

----------------------------------------------------------------------------
(* Python values *)

PNone == [t |-> "none"]
PStr(s) == [t |-> "str", v |-> s]
PInt(n) == [t |-> "int", v |-> n]
PBool(b) == [t |-> "bool", v |-> b]
PList(xs) == [t |-> "list", v |-> xs]
PDict(kvs) == [t |-> "dict", v |-> kvs]
Raise(e) == [t |-> "raise", v |-> e]

IsNone(x) == x.t = "none"
IsStr(x) == x.t = "str"
IsDict(x) == x.t = "dict"
IsList(x) == x.t = "list"
IsRaise(x) == x.t = "raise"

\* bool(x): None, "", 0, False, [] and {} are falsy.
Truthy(x) ==
    CASE x.t = "none" -> FALSE
      [] x.t = "str" -> Len(x.v) > 0
      [] x.t = "int" -> x.v # 0
      [] x.t = "bool" -> x.v
      [] x.t = "list" -> Len(x.v) > 0
      [] x.t = "dict" -> Len(x.v) > 0
      [] OTHER -> TRUE

\* a or b
POr(a, b) == IF Truthy(a) THEN a ELSE b

\* key in d
HasKey(d, k) == \E i \in 1..Len(d.v) : d.v[i][1] = k

\* d.get(k, dflt)
GetOr(d, k, dflt) ==
    IF HasKey(d, k)
    THEN d.v[CHOOSE i \in 1..Len(d.v) : d.v[i][1] = k][2]
    ELSE dflt

\* d.get(k)
Get(d, k) == GetOr(d, k, PNone)

\* list(d.keys()) and list(d.values()), in insertion order
Keys(d) == [i \in 1..Len(d.v) |-> PStr(d.v[i][1])]
Values(d) == [i \in 1..Len(d.v) |-> d.v[i][2]]

----------------------------------------------------------------------------
(* Field names and literals of the source, as Python strs *)

K_text == <<"t","e","x","t">>
K_value == <<"v","a","l","u","e">>
K_textViewModel == <<"t","e","x","t","V","i","e","w","M","o","d","e","l">>
K_attributes == <<"a","t","t","r","i","b","u","t","e","s">>
K_string == <<"s","t","r","i","n","g">>
K_attributedText == <<"a","t","t","r","i","b","u","t","e","d","T","e","x","t">>
K_rawText == <<"r","a","w","T","e","x","t">>
K_entityUrn == <<"e","n","t","i","t","y","U","r","n">>
K_firstName == <<"f","i","r","s","t","N","a","m","e">>
K_localizedFirstName == <<"l","o","c","a","l","i","z","e","d","F","i","r","s","t","N","a","m","e">>
K_lastName == <<"l","a","s","t","N","a","m","e">>
K_localizedLastName == <<"l","o","c","a","l","i","z","e","d","L","a","s","t","N","a","m","e">>
K_publicIdentifier == <<"p","u","b","l","i","c","I","d","e","n","t","i","f","i","e","r">>
K_miniProfile == <<"m","i","n","i","P","r","o","f","i","l","e">>
K_name == <<"n","a","m","e">>
K_contentEntities == <<"c","o","n","t","e","n","t","E","n","t","i","t","i","e","s">>
K_title == <<"t","i","t","l","e">>
K_entity == <<"e","n","t","i","t","y">>
K_thumbnails == <<"t","h","u","m","b","n","a","i","l","s">>
K_landingUrl == <<"l","a","n","d","i","n","g","U","r","l">>
K_commentaryV2 == <<"c","o","m","m","e","n","t","a","r","y","V","2">>
K_commentary == <<"c","o","m","m","e","n","t","a","r","y">>
K_header == <<"h","e","a","d","e","r">>
K_body == <<"b","o","d","y">>
K_actor == <<"a","c","t","o","r">>
K_actorUrn == <<"a","c","t","o","r","U","r","n">>
K_content == <<"c","o","n","t","e","n","t">>
K_updateType == <<"u","p","d","a","t","e","T","y","p","e">>
K_permalink == <<"p","e","r","m","a","l","i","n","k">>
K_updateMetadata == <<"u","p","d","a","t","e","M","e","t","a","d","a","t","a">>
K_lifecycleState == <<"l","i","f","e","c","y","c","l","e","S","t","a","t","e">>
K_createdAt == <<"c","r","e","a","t","e","d","A","t">>
K_firstPublishedAt == <<"f","i","r","s","t","P","u","b","l","i","s","h","e","d","A","t">>
K_lastModified == <<"l","a","s","t","M","o","d","i","f","i","e","d">>
K_type == <<"t","y","p","e">>
K_preDashEntityUrn == <<"p","r","e","D","a","s","h","E","n","t","i","t","y","U","r","n">>
K_dashEntityUrn == <<"d","a","s","h","E","n","t","i","t","y","U","r","n">>
K_numLikes == <<"n","u","m","L","i","k","e","s">>
K_numComments == <<"n","u","m","C","o","m","m","e","n","t","s">>
K_numShares == <<"n","u","m","S","h","a","r","e","s">>
K_raw == <<"r","a","w">>
K_included == <<"i","n","c","l","u","d","e","d">>
K_data == <<"d","a","t","a">>
K_items == <<"i","t","e","m","s">>
K_paginationToken == <<"p","a","g","i","n","a","t","i","o","n","T","o","k","e","n">>
K_urn == <<"u","r","n">>
K_reactionByOrganizationActor == <<"r","e","a","c","t","i","o","n","B","y","O","r","g","a","n","i","z","a","t","i","o","n","A","c","t","o","r">>
K_update == <<"u","p","d","a","t","e">>
K_updateUrn == <<"u","p","d","a","t","e","U","r","n">>
K_itemUrn == <<"i","t","e","m","U","r","n">>
K_dtype == <<"$","t","y","p","e">>
K_did == <<"$","i","d">>
S_Update == <<"U","p","d","a","t","e">>
S_UpdateAction == <<"U","p","d","a","t","e","A","c","t","i","o","n">>
S_Urn == <<"U","r","n">>
S_urn_li_fsd_update == <<"u","r","n",":","l","i",":","f","s","d","_","u","p","d","a","t","e">>
S_SocialActivityCounts ==
    <<"c","o","m",".","l","i","n","k","e","d","i","n",".","v","o","y","a","g","e","r",".","d","a","s","h",".","f","e","e","d",".","S","o","c","i","a","l","A","c","t","i","v","i","t","y","C","o","u","n","t","s">>

----------------------------------------------------------------------------
(* str methods *)

\* s.startswith(p)
StartsWith(s, p) == Len(s) >= Len(p) /\ SubSeq(s, 1, Len(p)) = p

\* s.endswith(p)
EndsWith(s, p) == Len(s) >= Len(p) /\ SubSeq(s, Len(s) - Len(p) + 1, Len(s)) = p

\* p in s, for two strs
IsSubstr(p, s) == \E i \in 0..(Len(s) - Len(p)) : SubSeq(s, i + 1, i + Len(p)) = p

\* s.find(c): 0-based index of the first occurrence of the character c, or -1
Find(s, c) ==
    IF \E i \in 1..Len(s) : s[i] = c
    THEN (CHOOSE i \in 1..Len(s) : s[i] = c /\ \A j \in 1..(i - 1) : s[j] # c) - 1
    ELSE -1

\* s[a:-1] for a >= 0
SliceToLast(s, a) == SubSeq(s, a + 1, Len(s) - 1)

----------------------------------------------------------------------------
(* extract_text_block *)

RECURSIVE JoinParts_Reversed(_)
\* faulty variant: the parts are joined last to first
JoinParts_Reversed(parts) ==
    IF parts = <<>> THEN <<>> ELSE JoinParts_Reversed(Tail(parts)) \o Head(parts).v

RECURSIVE JoinParts(_)
\* "".join(parts)
JoinParts(parts) ==
    IF parts = <<>> THEN <<>> ELSE Head(parts).v \o JoinParts(Tail(parts))

RECURSIVE extract_text_block(_)
RECURSIVE TextParts(_)

\* the loop of lines 216-220: the truthy texts of the elements, in order
TextParts(elems) ==
    IF elems = <<>> THEN <<>>
    ELSE LET text == extract_text_block(Head(elems))
         IN  (IF Truthy(text) THEN <<text>> ELSE <<>>) \o TextParts(Tail(elems))

\* lines 215-221: a dict iterates over its keys, a list over its elements
TextOfIterable(elems) ==
    LET parts == TextParts(elems)
    IN  IF parts # <<>> THEN PStr(JoinParts(parts)) ELSE PNone

\* faulty variant: "value" is looked at before "text"
extract_text_block_ValueFirst(block) ==
    CASE IsNone(block) -> PNone
      [] IsStr(block) -> block
      [] IsDict(block) ->
            IF HasKey(block, K_value) THEN extract_text_block(Get(block, K_value))
            ELSE IF HasKey(block, K_text) THEN extract_text_block(Get(block, K_text))
            ELSE IF HasKey(block, K_textViewModel)
                 THEN extract_text_block(Get(block, K_textViewModel))
            ELSE IF HasKey(block, K_attributes)
                 THEN extract_text_block(Get(block, K_string))
            ELSE IF HasKey(block, K_attributedText)
                 THEN extract_text_block(Get(block, K_attributedText))
            ELSE IF HasKey(block, K_rawText) THEN extract_text_block(Get(block, K_rawText))
            ELSE TextOfIterable(Keys(block))
      [] IsList(block) -> TextOfIterable(block.v)
      [] OTHER -> PNone

extract_text_block(block) ==
    CASE IsNone(block) -> PNone
      [] IsStr(block) -> block
      [] IsDict(block) ->
            IF HasKey(block, K_text) THEN extract_text_block(Get(block, K_text))
            ELSE IF HasKey(block, K_value) THEN extract_text_block(Get(block, K_value))
            ELSE IF HasKey(block, K_textViewModel)
                 THEN extract_text_block(Get(block, K_textViewModel))
            ELSE IF HasKey(block, K_attributes)
                 THEN extract_text_block(Get(block, K_string))
            ELSE IF HasKey(block, K_attributedText)
                 THEN extract_text_block(Get(block, K_attributedText))
            ELSE IF HasKey(block, K_rawText) THEN extract_text_block(Get(block, K_rawText))
            ELSE TextOfIterable(Keys(block))
      [] IsList(block) -> TextOfIterable(block.v)
      [] OTHER -> PNone

----------------------------------------------------------------------------
(* Iteration and dict stores *)

\* for x in v: lists, dicts (their keys) and strs (their characters) iterate
IsIterable(x) == x.t \in {"list", "dict", "str"}
Elems(x) ==
    CASE x.t = "list" -> x.v
      [] x.t = "dict" -> Keys(x)
      [] x.t = "str" -> [i \in 1..Len(x.v) |-> PStr(<<x.v[i]>>)]

\* lists and dicts are unhashable: using one as a dict key raises TypeError
Hashable(x) == x.t \notin {"list", "dict"}

\* faulty variant: a key that is present keeps its value
DictSet_KeepFirst(d, k, x) ==
    IF HasKey(d, k) THEN d ELSE PDict(Append(d.v, <<k, x>>))

\* d[k] = x on a dict with str keys: an existing key keeps its position
DictSet(d, k, x) ==
    IF HasKey(d, k)
    THEN PDict([i \in 1..Len(d.v) |-> IF d.v[i][1] = k THEN <<k, x>> ELSE d.v[i]])
    ELSE PDict(Append(d.v, <<k, x>>))

\* The entity index maps entityUrn values (any hashable value) to records:
\* a sequence of <<key value, record>> pairs.
IdxHas(index, key) == \E i \in 1..Len(index) : index[i][1] = key
IdxGet(index, key) ==
    IF IdxHas(index, key)
    THEN index[CHOOSE i \in 1..Len(index) : index[i][1] = key][2]
    ELSE PNone
IdxSet(index, key, x) ==
    IF IdxHas(index, key)
    THEN [i \in 1..Len(index) |-> IF index[i][1] = key THEN <<key, x>> ELSE index[i]]
    ELSE Append(index, <<key, x>>)

----------------------------------------------------------------------------
(* index_included *)

Ok(x) == [t |-> "ok", v |-> x]

\* for item in payload.get("included", []): TypeError when it cannot be iterated
IncludedOf(payload) == GetOr(payload, K_included, PList(<<>>))

RECURSIVE IndexFold(_, _)
\* lines 349-351: a later record replaces an earlier one under the same key
IndexFold(elems, index) ==
    IF elems = <<>> THEN index
    ELSE LET item == Head(elems)
         IN  IF IsDict(item) /\ HasKey(item, K_entityUrn)
             THEN IndexFold(Tail(elems), IdxSet(index, Get(item, K_entityUrn), item))
             ELSE IndexFold(Tail(elems), index)

\* line 351 raises TypeError on an entityUrn that is a list or a dict
IndexRaises(elems) ==
    \E i \in 1..Len(elems) :
        IsDict(elems[i]) /\ HasKey(elems[i], K_entityUrn)
            /\ ~Hashable(Get(elems[i], K_entityUrn))

\* Ok(index), or the exception raised
index_included(payload) ==
    IF ~IsIterable(IncludedOf(payload)) THEN Raise("TypeError")
    ELSE IF IndexRaises(Elems(IncludedOf(payload))) THEN Raise("TypeError")
    ELSE Ok(IndexFold(Elems(IncludedOf(payload)), <<>>))

----------------------------------------------------------------------------
(* simplify_actor *)

\* " ".join(filter(None, [first, last])): TypeError on a truthy non-str part
NameJoin(first, last) ==
    LET parts == SelectSeq(<<first, last>>, Truthy)
    IN  IF \E i \in 1..Len(parts) : ~IsStr(parts[i]) THEN Raise("TypeError")
        ELSE IF Len(parts) = 2 THEN PStr(parts[1].v \o <<" ">> \o parts[2].v)
        ELSE PStr(parts[1].v)

\* lines 239-242 and 249-252: the name read from one record, None if it has none
NameOf(rec) ==
    LET first == POr(Get(rec, K_firstName), Get(rec, K_localizedFirstName))
        last == POr(Get(rec, K_lastName), Get(rec, K_localizedLastName))
    IN  IF Truthy(first) \/ Truthy(last) THEN NameJoin(first, last) ELSE PNone

ActorRecord(actor_urn, name, public_id) ==
    PDict(<< <<K_entityUrn, actor_urn>>, <<K_name, name>>, <<K_publicIdentifier, public_id>> >>)

\* lines 237-258, for an actor that is a dict
ActorOfDict(actor, actor_urn) ==
    LET name == NameOf(actor)
        public_id == Get(actor, K_publicIdentifier)
        mini == Get(actor, K_miniProfile)
    IN  IF IsRaise(name) THEN name
        ELSE IF ~Truthy(public_id) /\ IsDict(mini)
        THEN LET mname == IF ~Truthy(name) THEN NameOf(mini) ELSE name
             IN  IF IsRaise(mname) THEN mname
                 ELSE ActorRecord(actor_urn,
                                  IF ~Truthy(name) /\ Truthy(mname) THEN mname ELSE name,
                                  Get(mini, K_publicIdentifier))
        ELSE ActorRecord(actor_urn, name, public_id)

simplify_actor(actor_ref, index) ==
    IF IsNone(actor_ref) THEN PNone
    ELSE IF IsDict(actor_ref) THEN ActorOfDict(actor_ref, Get(actor_ref, K_entityUrn))
    ELSE IF ~Hashable(actor_ref) THEN Raise("TypeError")
    ELSE LET actor == IdxGet(index, actor_ref)
         IN  IF ~IsDict(actor)
             THEN IF Truthy(actor_ref) THEN PDict(<< <<K_entityUrn, actor_ref>> >>) ELSE PNone
             ELSE ActorOfDict(actor, actor_ref)

----------------------------------------------------------------------------
(* simplify_content_entities *)

\* lines 268-273
SimplifiedEntity(entity) ==
    PDict(<< <<K_title, extract_text_block(Get(entity, K_title))>>,
             <<K_entity, Get(entity, K_entity)>>,
             <<K_thumbnails, Get(entity, K_thumbnails)>>,
             <<K_landingUrl, Get(entity, K_landingUrl)>> >>)

RECURSIVE OwnEntities(_)
\* lines 265-274: one record per dict element of a contentEntities list
OwnEntities(es) ==
    IF es = <<>> THEN <<>>
    ELSE (IF IsDict(Head(es)) THEN <<SimplifiedEntity(Head(es))>> ELSE <<>>)
         \o OwnEntities(Tail(es))

\* faulty variant: nested mappings and sequences are not descended into
simplify_content_entities_Shallow(content) ==
    IF IsDict(content) /\ HasKey(content, K_contentEntities)
                       /\ IsList(Get(content, K_contentEntities))
    THEN OwnEntities(Get(content, K_contentEntities).v)
    ELSE <<>>

RECURSIVE simplify_content_entities(_)
RECURSIVE EntitiesOfEach(_)
RECURSIVE EntitiesOfValues(_)

\* lines 280-281 and 283-284
EntitiesOfEach(items) ==
    IF items = <<>> THEN <<>>
    ELSE simplify_content_entities(Head(items)) \o EntitiesOfEach(Tail(items))

\* lines 276-281
EntitiesOfValues(values) ==
    IF values = <<>> THEN <<>>
    ELSE LET value == Head(values)
         IN  (IF IsDict(value) THEN simplify_content_entities(value)
              ELSE IF IsList(value) THEN EntitiesOfEach(value.v)
              ELSE <<>>) \o EntitiesOfValues(Tail(values))

simplify_content_entities(content) ==
    IF IsDict(content)
    THEN (IF HasKey(content, K_contentEntities) /\ IsList(Get(content, K_contentEntities))
          THEN OwnEntities(Get(content, K_contentEntities).v)
          ELSE <<>>) \o EntitiesOfValues(Values(content))
    ELSE IF IsList(content) THEN EntitiesOfEach(content.v)
    ELSE <<>>

----------------------------------------------------------------------------
(* simplify_update *)

\* faulty variant: the fields are tried from the last to the first
CommentaryKeys_Reversed == <<K_body, K_header, K_commentary, K_commentaryV2>>

CommentaryKeys == <<K_commentaryV2, K_commentary, K_header, K_body>>

RECURSIVE CommentaryLoop(_, _, _)
\* lines 294-299: commentary keeps the text of the last key tried
CommentaryLoop(update, keys, commentary) ==
    IF keys = <<>> THEN commentary
    ELSE IF HasKey(update, Head(keys))
    THEN LET text == extract_text_block(Get(update, Head(keys)))
         IN  IF Truthy(text) THEN text ELSE CommentaryLoop(update, Tail(keys), text)
    ELSE CommentaryLoop(update, Tail(keys), commentary)

\* faulty variant: the identifier is not unwrapped
InnerUrn_Whole(entity_urn) == entity_urn

\* lines 323-326: the text between the first "(" and the final character
InnerUrn(entity_urn) == SliceToLast(entity_urn, Find(entity_urn, "(") + 1)

\* lines 318-331: the counter record joined to the update, or None
SocialOf(update, store) ==
    LET entity_urn == Get(update, K_entityUrn)
        own == IF IsStr(entity_urn) THEN Get(store, entity_urn.v) ELSE PNone
        social == IF IsStr(entity_urn) /\ ~Truthy(own) /\ EndsWith(entity_urn.v, <<")">>)
                     /\ Find(entity_urn.v, "(") # -1
                  THEN Get(store, InnerUrn(entity_urn.v))
                  ELSE own
        pre_dash == POr(Get(update, K_preDashEntityUrn), Get(update, K_dashEntityUrn))
    IN  IF ~Truthy(social)
        THEN IF IsStr(pre_dash) THEN Get(store, pre_dash.v) ELSE social
        ELSE social

\* line 309: .get on an updateMetadata that is not a dict raises AttributeError
PermalinkOf(update) ==
    IF Truthy(Get(update, K_permalink)) THEN Get(update, K_permalink)
    ELSE LET meta == GetOr(update, K_updateMetadata, PDict(<<>>))
         IN  IF IsDict(meta) THEN Get(meta, K_permalink) ELSE Raise("AttributeError")

simplify_update(update, index, with_raw, store) ==
    LET commentary == CommentaryLoop(update, CommentaryKeys, PNone)
        actor_info == simplify_actor(POr(Get(update, K_actor), Get(update, K_actorUrn)), index)
        content_entities == simplify_content_entities(Get(update, K_content))
        permalink == PermalinkOf(update)
        social == SocialOf(update, store)
        base == << <<K_entityUrn, Get(update, K_entityUrn)>>,
                   <<K_type, POr(Get(update, K_updateType), Get(update, K_dtype))>>,
                   <<K_actor, actor_info>>,
                   <<K_permalink, permalink>>,
                   <<K_lifecycleState, Get(update, K_lifecycleState)>>,
                   <<K_createdAt, POr(POr(Get(update, K_createdAt),
                                          Get(update, K_firstPublishedAt)),
                                      Get(update, K_lastModified))>>,
                   <<K_commentary, commentary>> >>
        entities == IF content_entities # <<>>
                    THEN << <<K_contentEntities, PList(content_entities)>> >> ELSE <<>>
        counts == IF IsDict(social)
                  THEN << <<K_numLikes, Get(social, K_numLikes)>>,
                          <<K_numComments, Get(social, K_numComments)>>,
                          <<K_numShares, Get(social, K_numShares)>> >>
                  ELSE <<>>
        raw == IF with_raw THEN << <<K_raw, update>> >> ELSE <<>>
    IN  IF IsRaise(actor_info) THEN actor_info
        ELSE IF IsRaise(permalink) THEN permalink
        ELSE PDict(base \o entities \o counts \o raw)

----------------------------------------------------------------------------
(* get_updates_section and extract_pagination_token *)

RECURSIVE ChildDicts(_)
\* lines 373-379: the dicts enqueued for the values of a node
ChildDicts(values) ==
    IF values = <<>> THEN <<>>
    ELSE LET value == Head(values)
         IN  (IF IsDict(value) THEN <<value>>
              ELSE IF IsList(value) THEN SelectSeq(value.v, IsDict)
              ELSE <<>>) \o ChildDicts(Tail(values))

RECURSIVE SectionSearch(_)
\* lines 363-381.  The payload is decoded JSON, a tree: no node is met twice,
\* so the visited test of lines 366-367 never skips a node.
SectionSearch(queue) ==
    IF queue = <<>> THEN PDict(<<>>)
    ELSE LET node == Head(queue)
         IN  IF IsList(Get(node, K_items)) THEN node
             ELSE SectionSearch(Tail(queue) \o ChildDicts(Values(node)))

get_updates_section(payload) ==
    LET data_root == IF IsDict(payload) THEN Get(payload, K_data) ELSE PNone
    IN  SectionSearch(IF IsDict(data_root) THEN <<data_root>> ELSE <<>>)

IsContainer(x) == IsDict(x) \/ IsList(x)

RECURSIVE scan(_)
\* lines 463-484, on a queue of pending objects
scan(queue) ==
    IF queue = <<>> THEN PNone
    ELSE LET current == Head(queue)
         IN  IF IsDict(current)
             THEN IF IsStr(Get(current, K_paginationToken))
                  THEN Get(current, K_paginationToken)
                  ELSE scan(Tail(queue) \o SelectSeq(Values(current), IsContainer))
             ELSE IF IsList(current)
             THEN scan(Tail(queue) \o SelectSeq(current.v, IsContainer))
             ELSE scan(Tail(queue))

extract_pagination_token(payload) ==
    LET section == get_updates_section(payload)
        token == IF Truthy(section) THEN scan(<<section>>) ELSE PNone
    IN  IF Truthy(token) THEN token ELSE scan(<<payload>>)

----------------------------------------------------------------------------
(* collect_updates *)

\* needle in hay (lines 393): substring of a str, element of a list, key of a
\* dict; TypeError for None, numbers and booleans
CanContain(hay) == hay.t \in {"str", "list", "dict"}
Contains(needle, hay) ==
    CASE hay.t = "str" -> IsSubstr(needle, hay.v)
      [] hay.t = "list" -> \E i \in 1..Len(hay.v) : hay.v[i] = PStr(needle)
      [] hay.t = "dict" -> HasKey(hay, needle)

\* line 392
TypeName(item) == GetOr(item, K_dtype, PStr(<<>>))

\* line 393 raises TypeError on a "$type" that cannot be searched
TypeRaises(elems) ==
    \E i \in 1..Len(elems) : IsDict(elems[i]) /\ ~CanContain(TypeName(elems[i]))

\* lines 390-395: an update-typed record with a str entityUrn
IsIncludedUpdate(item) ==
    /\ IsDict(item)
    /\ Contains(S_Update, TypeName(item))
    /\ ~Contains(S_UpdateAction, TypeName(item))
    /\ IsStr(Get(item, K_entityUrn))

\* lines 388-397: included_updates, in the order of included
IncludedUpdates(elems) == SelectSeq(elems, IsIncludedUpdate)

RECURSIVE UpdatesDict(_, _)
\* line 396: updates[entity_urn] = item
UpdatesDict(included_updates, updates) ==
    IF included_updates = <<>> THEN updates
    ELSE UpdatesDict(Tail(included_updates),
                     DictSet(updates, Get(Head(included_updates), K_entityUrn).v,
                             Head(included_updates)))

RECURSIVE FirstUrnField(_)
\* lines 405-411: the first field, in the item's order, that is a str under a
\* key ending in "Urn" or a str starting with the update-URN prefix
FirstUrnField(kvs) ==
    IF kvs = <<>> THEN PNone
    ELSE LET key == Head(kvs)[1]
             value == Head(kvs)[2]
         IN  IF IsStr(value) /\ (EndsWith(key, S_Urn) \/ StartsWith(value.v, S_urn_li_fsd_update))
             THEN value
             ELSE FirstUrnField(Tail(kvs))

LiteralKeys == <<K_entityUrn, K_update, K_updateUrn, K_itemUrn>>

RECURSIVE FirstLiteral(_, _)
\* lines 413-417
FirstLiteral(item, keys) ==
    IF keys = <<>> THEN PNone
    ELSE IF IsStr(Get(item, Head(keys))) THEN Get(item, Head(keys))
    ELSE FirstLiteral(item, Tail(keys))

\* lines 404-417
Candidate(item) ==
    LET candidate == FirstUrnField(item.v)
    IN  IF Truthy(candidate) THEN candidate
        ELSE LET literal == FirstLiteral(item, LiteralKeys)
             IN  IF IsNone(literal) THEN candidate ELSE literal

\* faulty variant: membership is never found
InSeq_Never(x, xs) == FALSE

InSeq(x, xs) == \E i \in 1..Len(xs) : xs[i] = x

RECURSIVE OrderFromItems(_, _, _)
\* lines 401-419
OrderFromItems(items, updates, order) ==
    IF items = <<>> THEN order
    ELSE LET item == Head(items)
         IN  IF ~IsDict(item) THEN OrderFromItems(Tail(items), updates, order)
             ELSE LET candidate == Candidate(item)
                  IN  IF Truthy(candidate) /\ HasKey(updates, candidate.v)
                         /\ ~InSeq(candidate.v, order)
                      THEN OrderFromItems(Tail(items), updates, Append(order, candidate.v))
                      ELSE OrderFromItems(Tail(items), updates, order)

\* faulty variant: nothing is taken from the order of included
OrderFromIncluded_Nothing(included_updates, order) == order

RECURSIVE OrderFromIncluded(_, _)
\* lines 423-426
OrderFromIncluded(included_updates, order) ==
    IF included_updates = <<>> THEN order
    ELSE LET urn == Get(Head(included_updates), K_entityUrn)
         IN  IF IsStr(urn) /\ ~InSeq(urn.v, order)
             THEN OrderFromIncluded(Tail(included_updates), Append(order, urn.v))
             ELSE OrderFromIncluded(Tail(included_updates), order)

\* returns [order, updates], or the exception raised
collect_updates(payload) ==
    LET included == IncludedOf(payload)
    IN  IF ~IsIterable(included) THEN Raise("TypeError")
        ELSE IF TypeRaises(Elems(included)) THEN Raise("TypeError")
        ELSE LET included_updates == IncludedUpdates(Elems(included))
                 updates == UpdatesDict(included_updates, PDict(<<>>))
                 items == GetOr(get_updates_section(payload), K_items, PList(<<>>))
                 order == OrderFromItems(items.v, updates, <<>>)
             IN  [t |-> "ok",
                  order |-> IF order = <<>>
                            THEN OrderFromIncluded(included_updates, <<>>)
                            ELSE order,
                  updates |-> updates]

----------------------------------------------------------------------------
(* harvest_social_counts and harvest_organization_reactions *)

\* record = dict(item); record.setdefault("entityUrn", urn)
CounterRecord(item, urn) ==
    IF HasKey(item, K_entityUrn) THEN item
    ELSE PDict(Append(item.v, <<K_entityUrn, urn>>))

RECURSIVE SocialFold(_, _)
\* lines 432-442: last write wins for a key
SocialFold(elems, store) ==
    IF elems = <<>> THEN store
    ELSE LET item == Head(elems)
             urn == POr(Get(item, K_entityUrn), Get(item, K_urn))
         IN  IF IsDict(item) /\ Get(item, K_dtype) = PStr(S_SocialActivityCounts)
                /\ IsStr(urn)
             THEN SocialFold(Tail(elems), DictSet(store, urn.v, CounterRecord(item, urn)))
             ELSE SocialFold(Tail(elems), store)

\* faulty variant: the counters of the page are not harvested
harvest_social_counts_Skip(payload, store) == store

\* the store after the call, or the exception raised
harvest_social_counts(payload, store) ==
    IF IsIterable(IncludedOf(payload)) THEN SocialFold(Elems(IncludedOf(payload)), store)
    ELSE Raise("TypeError")

RECURSIVE Canon(_)
\* json.dumps(item, sort_keys=True): two records have the same text exactly
\* when they have the same fields with the same values, whatever the order
\* of their keys.  The text is modelled by that order-free content.
Canon(x) ==
    CASE x.t = "dict" -> [t |-> "dict", v |-> {<<x.v[i][1], Canon(x.v[i][2])>> : i \in 1..Len(x.v)}]
      [] x.t = "list" -> [t |-> "list", v |-> [i \in 1..Len(x.v) |-> Canon(x.v[i])]]
      [] OTHER -> x

\* lines 453-455: the store key of a record
OrgKey(item) ==
    LET key == POr(POr(Get(item, K_entityUrn), Get(item, K_urn)), Get(item, K_did))
    IN  IF IsStr(key) THEN key ELSE [t |-> "json", v |-> Canon(item)]

RECURSIVE OrgFold_LastWins(_, _)
\* faulty variant: a record replaces the one stored under its key
OrgFold_LastWins(elems, store) ==
    IF elems = <<>> THEN store
    ELSE LET item == Head(elems)
         IN  IF IsDict(item) /\ HasKey(item, K_reactionByOrganizationActor)
             THEN OrgFold_LastWins(Tail(elems), IdxSet(store, OrgKey(item), item))
             ELSE OrgFold_LastWins(Tail(elems), store)

RECURSIVE OrgFold(_, _)
\* lines 448-457: the first record stored under a key is kept
OrgFold(elems, store) ==
    IF elems = <<>> THEN store
    ELSE LET item == Head(elems)
         IN  IF IsDict(item) /\ HasKey(item, K_reactionByOrganizationActor)
                /\ ~IdxHas(store, OrgKey(item))
             THEN OrgFold(Tail(elems), Append(store, <<OrgKey(item), item>>))
             ELSE OrgFold(Tail(elems), store)

\* Ok(store) after the call, the store being a sequence of <<key, record>>,
\* or the exception raised
harvest_organization_reactions(payload, store) ==
    IF IsIterable(IncludedOf(payload)) THEN Ok(OrgFold(Elems(IncludedOf(payload)), store))
    ELSE Raise("TypeError")

----------------------------------------------------------------------------
(* fetch_all_updates: the pagination loop *)

\* xs[:n] for n >= 0
Prefix(xs, n) == SubSeq(xs, 1, IF n < Len(xs) THEN n ELSE Len(xs))

\* faulty variant: every identifier counts as seen once one was emitted
AlreadySeen_AfterFirst(urn, seenSet) == seenSet # {}

\* faulty variant: the test of line 583 never succeeds
AlreadySeen_Never(urn, seenSet) == FALSE

\* line 583: the identifier was emitted before
AlreadySeen(urn, seenSet) == urn \in seenSet

\* faulty variant: the record is put in front of the accumulated ones
Appended_Front(acc, urn, rec) ==
    [acc EXCEPT !.collected = <<rec>> \o @, !.seen = @ \cup {urn},
                !.new = Append(@, rec)]

\* faulty variant: the record replaces the accumulated ones
Appended_Restart(acc, urn, rec) ==
    [acc EXCEPT !.collected = <<rec>>, !.seen = @ \cup {urn},
                !.new = Append(@, rec)]

\* lines 588-592: acc after the record of urn was appended
Appended(acc, urn, rec) ==
    [acc EXCEPT !.collected = Append(@, rec), !.seen = @ \cup {urn},
                !.new = Append(@, rec)]

RECURSIVE FoldOrder(_, _, _, _, _, _)
RECURSIVE AfterAppend(_, _, _, _, _, _)
\* lines 593-594: stop at the limit, else go on with the rest of order
AfterAppend(order, updates, index, raw, lim, next) ==
    IF Truthy(lim) /\ Len(next.collected) >= lim.v THEN next
    ELSE FoldOrder(Tail(order), updates, index, raw, lim, next)

\* lines 588-594 for the record rec that simplify_update gave for Head(order)
Emit(order, updates, index, raw, lim, acc, rec) ==
    IF IsRaise(rec) THEN rec
    ELSE AfterAppend(order, updates, index, raw, lim, Appended(acc, Head(order), rec))

\* lines 582-594: acc carries collected, seen, the counter store, the located
\* order and the records appended for this page; the result is acc or the
\* exception simplify_update raised
FoldOrder(order, updates, index, raw, lim, acc) ==
    IF order = <<>> THEN acc
    ELSE IF AlreadySeen(Head(order), acc.seen) \/ ~Truthy(Get(updates, Head(order)))
    THEN FoldOrder(Tail(order), updates, index, raw, lim, acc)
    ELSE Emit(order, updates, index, raw, lim, acc,
              simplify_update(Get(updates, Head(order)), index, raw, acc.store))

\* lines 581-594 once lines 577-579 gave index, counts and located
FoldLocated(index, counts, located, raw, lim, coll, seenSet) ==
    IF IsRaise(index) THEN index
    ELSE IF IsRaise(counts) THEN counts
    ELSE IF IsRaise(located) THEN located
    ELSE FoldOrder(located.order, located.updates, index.v, raw, lim,
                   [t |-> "ok", collected |-> coll, seen |-> seenSet,
                    store |-> counts, new |-> <<>>, order |-> located.order])

\* lines 577-594: the updates branch of one iteration
FoldUpdates(payload, raw, lim, coll, seenSet, store) ==
    FoldLocated(index_included(payload), harvest_social_counts(payload, store),
                collect_updates(payload), raw, lim, coll, seenSet)

\* lines 558-561: counts is the store after harvest_social_counts, fresh the
\* counter records of this page alone
SocialPage(counts, fresh, coll, seenSet, org) ==
    IF IsRaise(counts) THEN counts
    ELSE [t |-> "ok", collected |-> coll, seen |-> seenSet, store |-> counts,
          org |-> org, order |-> <<>>, new |-> Values(fresh)]

\* lines 567-570: reactions is the store after harvest_organization_reactions
OrgPage(reactions, coll, seenSet, store, org) ==
    IF IsRaise(reactions) THEN reactions
    ELSE [t |-> "ok", collected |-> coll, seen |-> seenSet, store |-> store,
          org |-> reactions.v, order |-> <<>>,
          new |-> [i \in 1..(Len(reactions.v) - Len(org)) |->
                       reactions.v[Len(org) + i][2]]]

\* lines 576-594: folded is what the updates branch gave
UpdatesPage(folded, org) ==
    IF IsRaise(folded) THEN folded
    ELSE [t |-> "ok", collected |-> folded.collected, seen |-> folded.seen,
          store |-> folded.store, org |-> org, new |-> folded.new,
          order |-> folded.order]

\* lines 558-594: the per-page step of the active mode.  Returns the
\* accumulators after the page and the records folded from it, or the
\* exception raised.
FoldPage(payload, sco, oro, raw, lim, coll, seenSet, store, org) ==
    IF sco
    THEN SocialPage(harvest_social_counts(payload, store),
                    harvest_social_counts(payload, PDict(<<>>)), coll, seenSet, org)
    ELSE IF oro
    THEN OrgPage(harvest_organization_reactions(payload, org), coll, seenSet, store, org)
    ELSE UpdatesPage(FoldUpdates(payload, raw, lim, coll, seenSet, store), org)

\* faulty variant: the organization-reactions count is not compared with the limit
LimitReached_NoOrg(sco, oro, lim, coll, store, org) ==
    /\ Truthy(lim)
    /\ \/ sco /\ Len(store.v) >= lim.v
       \/ ~sco /\ Len(coll) >= lim.v

\* lines 602-607
LimitReached(sco, oro, lim, coll, store, org) ==
    /\ Truthy(lim)
    /\ \/ sco /\ Len(store.v) >= lim.v
       \/ oro /\ Len(org) >= lim.v
       \/ ~sco /\ Len(coll) >= lim.v

\* lines 609-610: len(items)
ItemCount(payload) == Len(GetOr(get_updates_section(payload), K_items, PList(<<>>)).v)

\* faulty variant: no cycle guard
TokenSeen_Never(next_token, tokens) == FALSE

\* line 616: the token was returned by an earlier page of the run
TokenSeen(next_token, tokens) == next_token \in tokens

\* faulty variant: the token is not recorded
RecordToken_Forget(next_token, tokens) == tokens

\* faulty variant: only the latest token is remembered
RecordToken_Latest(next_token, tokens) == {next_token}

\* line 618
RecordToken(next_token, tokens) == tokens \cup {next_token}

\* faulty variant: the offset advances by one
AdvanceCursor_ByOne(cur, cnt) == cur + 1

\* line 620
AdvanceCursor(cur, cnt) == cur + cnt

\* faulty variant: a page without a token ends the run only when it is short
StopReason_ShortOnly(payload, sco, oro, lim, cnt, tokens, coll, store, org) ==
    LET next_token == extract_pagination_token(payload)
    IN  IF LimitReached(sco, oro, lim, coll, store, org) THEN "limit"
        ELSE IF ItemCount(payload) < cnt /\ ~Truthy(next_token) THEN "short"
        ELSE IF TokenSeen(next_token, tokens) THEN "cycle"
        ELSE ""

\* lines 602-617: which break leaves the loop after this page, "" for none
StopReason(payload, sco, oro, lim, cnt, tokens, coll, store, org) ==
    LET next_token == extract_pagination_token(payload)
    IN  IF LimitReached(sco, oro, lim, coll, store, org) THEN "limit"
        ELSE IF ItemCount(payload) < cnt /\ ~Truthy(next_token) THEN "short"
        ELSE IF ~Truthy(next_token) THEN "no_token"
        ELSE IF TokenSeen(next_token, tokens) THEN "cycle"
        ELSE ""

\* lines 622-635
ReturnValue(sco, oro, lim, coll, store, org) ==
    LET results == IF sco THEN Values(store)
                   ELSE IF oro THEN [i \in 1..Len(org) |-> org[i][2]]
                   ELSE coll
    IN  IF Truthy(lim) THEN Prefix(results, lim.v) ELSE results

\* what one fetch sends (lines 550-557, 508-514)
Request == [start |-> cursor, count |-> count, token |-> pagination_token]

\* One iteration of the loop of lines 549-620 on the page the fetch returned,
\* followed by lines 622-635 when the iteration breaks out of the loop.
Iterate(payload) ==
    /\ pc = "loop"
    /\ requests' = Append(requests, Request)
    /\ \E page \in {FoldPage(payload, social_counts_only, organization_reactions_only,
                             include_raw, limit, collected, seen, social_counts,
                             org_reactions)},
          next_token \in {extract_pagination_token(payload)} :
          IF IsRaise(page)
          THEN /\ pc' = "raised"
               /\ stop' = "fold"
               /\ pagelog' = Append(pagelog, [token |-> next_token,
                                              nitems |-> ItemCount(payload),
                                              included |-> IncludedOf(payload),
                                              order |-> <<>>, folded |-> <<>>])
               /\ UNCHANGED <<collected, seen, social_counts, org_reactions, cursor,
                              pagination_token, seen_tokens, result>>
          ELSE \E why \in {StopReason(payload, social_counts_only,
                                      organization_reactions_only, limit, count,
                                      seen_tokens, page.collected, page.store, page.org)} :
                 /\ collected' = page.collected
                 /\ seen' = page.seen
                 /\ social_counts' = page.store
                 /\ org_reactions' = page.org
                 /\ pagelog' = Append(pagelog, [token |-> next_token,
                                                nitems |-> ItemCount(payload),
                                                included |-> IncludedOf(payload),
                                                order |-> page.order,
                                                folded |-> page.new])
                 /\ stop' = why
                 /\ IF why = ""
                    THEN /\ seen_tokens' = RecordToken(next_token, seen_tokens)
                         /\ pagination_token' = next_token
                         /\ cursor' = AdvanceCursor(cursor, count)
                         /\ pc' = "loop"
                         /\ UNCHANGED result
                    ELSE /\ pc' = "done"
                         /\ result' = ReturnValue(social_counts_only,
                                                  organization_reactions_only, limit,
                                                  page.collected, page.store, page.org)
                         /\ UNCHANGED <<seen_tokens, pagination_token, cursor>>
    /\ UNCHANGED <<call, ret, social_counts_only, organization_reactions_only,
                   include_raw, limit, start, count>>

\* faulty variant: the failure is swallowed and the loop fetches again
FetchFails_Retry ==
    /\ pc = "loop"
    /\ requests' = Append(requests, Request)
    /\ pc' = "loop"
    /\ stop' = "fetch"
    /\ UNCHANGED <<call, ret, social_counts_only, organization_reactions_only,
                   include_raw, limit, start, count, cursor, pagination_token,
                   seen_tokens, collected, seen, social_counts, org_reactions,
                   pagelog, result>>

\* lines 518-526: the request fails (transport error, HTTP error status or a
\* body that is not JSON); the exception leaves fetch_all_updates
FetchFails ==
    /\ pc = "loop"
    /\ requests' = Append(requests, Request)
    /\ pc' = "raised"
    /\ stop' = "fetch"
    /\ UNCHANGED <<call, ret, social_counts_only, organization_reactions_only,
                   include_raw, limit, start, count, cursor, pagination_token,
                   seen_tokens, collected, seen, social_counts, org_reactions,
                   pagelog, result>>

----------------------------------------------------------------------------
(* The upstream: the pages a fetch may return *)

\* the caller's arguments: limits None and 0..MaxLimit, one offset, one page size
MaxLimit == 2
StartOffset == 1
PageSize == 2

K_feed == <<"f","e","e","d">>
K_metadata == <<"m","e","t","a","d","a","t","a">>
K_foo == <<"f","o","o">>
S_a == <<"a">>
S_b == <<"b">>
T_Update == <<"f","e","e","d",".","U","p","d","a","t","e">>
URN_U1 == S_urn_li_fsd_update \o <<":","(","1",")">>
URN_U2 == S_urn_li_fsd_update \o <<":","(","2",")">>
URN_A2 == <<"u","r","n",":","l","i",":","a","c","t","i","v","i","t","y",":","2">>
URN_R1 == <<"r","1">>
URN_R2 == <<"r","2">>
TOK_A == <<"A">>
TOK_B == <<"B">>

\* update records
E_U1 == PDict(<< <<K_dtype, PStr(T_Update)>>, <<K_entityUrn, PStr(URN_U1)>>,
                 <<K_commentary, PDict(<< <<K_text, PStr(S_a)>> >>)>> >>)
E_U2 == PDict(<< <<K_dtype, PStr(T_Update)>>, <<K_entityUrn, PStr(URN_U2)>> >>)
\* social-activity counters: for update 1 (two versions), and one keyed by urn
E_C1(n) == PDict(<< <<K_dtype, PStr(S_SocialActivityCounts)>>,
                    <<K_entityUrn, PStr(URN_U1)>>, <<K_numLikes, PInt(n)>> >>)
E_C2 == PDict(<< <<K_dtype, PStr(S_SocialActivityCounts)>>, <<K_urn, PStr(URN_A2)>>,
                 <<K_numLikes, PInt(3)>> >>)
\* organization-reaction records
E_R1 == PDict(<< <<K_reactionByOrganizationActor, PBool(TRUE)>>,
                 <<K_entityUrn, PStr(URN_R1)>> >>)
E_R2 == PDict(<< <<K_reactionByOrganizationActor, PBool(FALSE)>>,
                 <<K_did, PStr(URN_R2)>> >>)
\* another record under the identifier of E_R1, and one without identifier
E_R1B == PDict(<< <<K_reactionByOrganizationActor, PBool(FALSE)>>,
                  <<K_entityUrn, PStr(URN_R1)>> >>)
E_R3 == PDict(<< <<K_reactionByOrganizationActor, PBool(TRUE)>>, <<K_foo, PInt(7)>> >>)
\* schema drift: a null "$type"
E_NULLTYPE == PDict(<< <<K_dtype, PNone>>, <<K_entityUrn, PStr(URN_U2)>> >>)

IncludedChoices ==
    { <<>>,
      <<E_U1, E_C1(1), E_R1>>,
      <<E_U2, E_U1, E_C1(2), E_C2, E_R2, E_R1>>,
      <<E_U2, E_NULLTYPE>>,
      <<E_C1(3), E_C2, E_C1(1)>>,
      <<E_U1, E_R1B, E_R1, E_R3>> }

ItemRef(key, urn) == PDict(<< <<key, PStr(urn)>> >>)

\* None: the page has no item list at all
ItemChoices ==
    { PNone,
      PList(<<>>),
      PList(<<ItemRef(K_entityUrn, URN_U2)>>),
      PList(<<ItemRef(K_entityUrn, URN_U1), ItemRef(K_update, URN_U1),
              ItemRef(K_updateUrn, URN_U1)>>) }

TokenChoices == {PNone, PStr(TOK_A), PStr(TOK_B)}

\* {"data": {"feed": {"metadata": {"paginationToken": ...}, "items": [...]}},
\*  "included": [...]}
Page(included, items, token) ==
    PDict(<< <<K_data, PDict(<< <<K_feed,
                PDict((IF IsNone(token) THEN <<>>
                       ELSE << <<K_metadata, PDict(<< <<K_paginationToken, token>> >>)>> >>)
                      \o (IF IsNone(items) THEN <<>> ELSE << <<K_items, items>> >>))>> >>)>>,
             <<K_included, PList(included)>> >>)

Pages == {Page(inc, its, tok) : inc \in IncludedChoices, its \in ItemChoices,
                                tok \in TokenChoices}

Pending == [t |-> "pending"]
Returned(x) == [t |-> "ret", v |-> x]
NoCall == [fn |-> "none"]

vars == <<call, ret, pc, social_counts_only, organization_reactions_only, include_raw,
          limit, start, count, cursor, pagination_token, seen_tokens, collected, seen,
          social_counts, org_reactions, requests, pagelog, stop, result>>

\* the state of lines 541-547
Locals ==
    /\ cursor = start
    /\ pagination_token = PNone
    /\ seen_tokens = {}
    /\ collected = <<>>
    /\ seen = {}
    /\ social_counts = PDict(<<>>)
    /\ org_reactions = <<>>
    /\ requests = <<>>
    /\ pagelog = <<>>
    /\ stop = ""
    /\ result = <<>>

\* main (lines 643-646) rejects a run with both flags set
Init ==
    /\ call = NoCall
    /\ ret = Pending
    /\ pc = "loop"
    /\ \E flags \in {<<FALSE, FALSE>>, <<TRUE, FALSE>>, <<FALSE, TRUE>>} :
          /\ social_counts_only = flags[1]
          /\ organization_reactions_only = flags[2]
    /\ include_raw = FALSE
    /\ limit \in {PNone} \cup {PInt(n) : n \in 0..MaxLimit}
    /\ start = StartOffset
    /\ count = PageSize
    /\ Locals

Next ==
    \/ \E payload \in Pages : Iterate(payload)
    \/ FetchFails

Spec == Init /\ [][Next]_vars

----------------------------------------------------------------------------
(* Properties of the pagination loop *)

UpdatesMode == ~social_counts_only /\ ~organization_reactions_only

UrnOf(rec) == Get(rec, K_entityUrn)

AllIn(xs, ys) == \A i \in 1..Len(xs) : InSeq(xs[i], ys)

\* the accumulated records of the active mode, before the final truncation
FullResults ==
    IF social_counts_only THEN Values(social_counts)
    ELSE IF organization_reactions_only
    THEN [i \in 1..Len(org_reactions) |-> org_reactions[i][2]]
    ELSE collected

ActiveCount == Len(FullResults)

\* the tokens the pages before page k returned
RecordedBefore(k) == {pagelog[j].token : j \in {i \in 1..(k - 1) : Truthy(pagelog[i].token)}}

\* page k returned a token that an earlier page of the run had returned
TokenRepeats(k) == Truthy(pagelog[k].token) /\ pagelog[k].token \in RecordedBefore(k)

\* C1: in updates mode the returned sequence never holds two records with
\* the same entityUrn, whatever the pages repeat.
C1_NoDuplicateIds ==
    (pc = "done" /\ UpdatesMode) =>
        \A i, j \in 1..Len(result) : i # j => UrnOf(result[i]) # UrnOf(result[j])

\* a run that returned two records although a later page located an
\* identifier of an earlier page and a page listed one identifier three times
C1_Witness ==
    /\ pc = "done" /\ UpdatesMode /\ Len(result) >= 2
    /\ \E k, l \in 1..Len(pagelog) :
          /\ k < l
          /\ \E i \in 1..Len(pagelog[k].order) : InSeq(pagelog[k].order[i], pagelog[l].order)
    /\ \E k \in 1..Len(pagelog) :
          Len(pagelog[k].order) > 0 /\ pagelog[k].nitems > Len(pagelog[k].order)

\* C2: whenever the caller supplies a limit (any integer >= 0), the number of
\* records returned is at most that limit, in every mode.
C2_LimitIsUpperBound ==
    (pc = "done" /\ ~IsNone(limit)) => Len(result) <= limit.v

C4_TokensNeverReused ==
    \A i, j \in 1..Len(requests) :
        (i < j /\ Truthy(requests[i].token) /\ Truthy(requests[j].token))
            => requests[i].token # requests[j].token

\* two fetches carried a token, and the upstream then repeated one
C4_Witness ==
    /\ Len(requests) = 3
    /\ Truthy(requests[2].token) /\ Truthy(requests[3].token)
    /\ Len(pagelog) = 3 /\ TokenRepeats(3)

\* C5 as stated: a page without a continuation token is the last page
\* fetched, and every record folded from it is in the returned result.
C5_Original ==
    \A k \in 1..Len(pagelog) :
        ~Truthy(pagelog[k].token) =>
            /\ Len(requests) = k
            /\ pc = "done" => AllIn(pagelog[k].folded, result)

\* C5 amended: a page without a continuation token, short or full, is the last
\* page fetched, and every record folded from it is among the accumulated
\* records, all of which are returned, except that in the two harvesting modes
\* a positive limit cuts the returned list to its first limit records.
C5_NoTokenIsLastPage ==
    \A k \in 1..Len(pagelog) :
        ~Truthy(pagelog[k].token) =>
            /\ Len(requests) = k
            /\ pc = "done" =>
                  /\ AllIn(pagelog[k].folded, FullResults)
                  /\ result = IF ~UpdatesMode /\ Truthy(limit)
                              THEN Prefix(FullResults, limit.v)
                              ELSE FullResults

\* the scenario of the claim at the model's page size: a full first page with
\* a token, a short second page without one, two fetches, and the records of
\* both pages returned
C5_Witness ==
    /\ pc = "done" /\ UpdatesMode /\ IsNone(limit)
    /\ Len(requests) = 2 /\ Len(pagelog) = 2
    /\ pagelog[1].nitems >= count /\ Truthy(pagelog[1].token)
    /\ pagelog[2].nitems > 0 /\ pagelog[2].nitems < count /\ ~Truthy(pagelog[2].token)
    /\ Len(pagelog[1].folded) > 0 /\ Len(pagelog[2].folded) > 0
    /\ Len(result) = Len(pagelog[1].folded) + Len(pagelog[2].folded)

\* C6: with a positive limit, once the accumulated count of the active mode
\* has reached the limit the loop is left: no state fetches again.
C6_LimitStopsRun ==
    (Truthy(limit) /\ ActiveCount >= limit.v) => pc # "loop"

\* the limit was reached on a later page that returned a fresh token, in
\* organization-reactions mode
C6_Witness ==
    /\ pc = "done" /\ stop = "limit" /\ organization_reactions_only
    /\ Len(requests) >= 2 /\ Len(requests) = Len(pagelog)
    /\ Truthy(pagelog[Len(pagelog)].token) /\ ~TokenRepeats(Len(pagelog))

\* C12: when a fetch fails the run is over: the exception leaves
\* fetch_all_updates, nothing is returned (the records accumulated so far are
\* not handed to the caller), and no further request is made, neither the
\* failed one again nor one for a later page.
C12_FetchFailureEndsRun ==
    stop = "fetch" => (pc = "raised" /\ result = <<>> /\ ~ENABLED Next)

\* the second fetch failed after the first page had given records
C12_Witness ==
    /\ stop = "fetch" /\ Len(requests) = 2 /\ Len(pagelog) = 1
    /\ ActiveCount > 0

\* the social-activity-counter records of the fetched pages, as positions
\* <<page, index in included>>
IsCounter(item) ==
    /\ IsDict(item)
    /\ Get(item, K_dtype) = PStr(S_SocialActivityCounts)
    /\ IsStr(POr(Get(item, K_entityUrn), Get(item, K_urn)))

CounterId(item) == POr(Get(item, K_entityUrn), Get(item, K_urn))

IncludedAt(pos) == pagelog[pos[1]].included.v[pos[2]]

CounterOccurrences ==
    {pos \in UNION {{<<k, i>> : i \in 1..Len(pagelog[k].included.v)} :
                        k \in 1..Len(pagelog)} : IsCounter(IncludedAt(pos))}

Later(pos, other) == pos[1] > other[1] \/ (pos[1] = other[1] /\ pos[2] > other[2])

IsLastOccurrence(pos) ==
    \A other \in CounterOccurrences :
        CounterId(IncludedAt(other)) = CounterId(IncludedAt(pos)) => ~Later(other, pos)

\* rec has the fields of item with their values, and at most the identifier
\* besides
HoldsValuesOf(rec, item) ==
    /\ \A i \in 1..Len(item.v) :
           HasKey(rec, item.v[i][1]) /\ Get(rec, item.v[i][1]) = item.v[i][2]
    /\ Len(rec.v) <= Len(item.v) + 1

\* recs is the union of the counters of all fetched pages: one record per
\* identifier, with the values of the identifier's last occurrence
UnionOfCounters(recs) ==
    /\ \A pos \in CounterOccurrences :
           Cardinality({j \in 1..Len(recs) :
                           CounterId(recs[j]) = CounterId(IncludedAt(pos))}) = 1
    /\ \A j \in 1..Len(recs) :
           \E pos \in CounterOccurrences :
               /\ CounterId(IncludedAt(pos)) = CounterId(recs[j])
               /\ IsLastOccurrence(pos)
               /\ HoldsValuesOf(recs[j], IncludedAt(pos))

\* C13 as stated: in social-counts-only mode the returned list is the union
\* of the counter records of all fetched pages, one record per identifier,
\* each with the values of the identifier's last occurrence.
C13_Original ==
    (pc = "done" /\ social_counts_only) => UnionOfCounters(result)

\* C13, amended: in social-counts-only mode the accumulated store is that
\* union, and the returned list is the store's records, cut to the first
\* `limit` of them when a positive limit is set.
C13_SocialCountsUnion ==
    (pc = "done" /\ social_counts_only)
        => /\ UnionOfCounters(Values(social_counts))
           /\ result = IF Truthy(limit) THEN Prefix(Values(social_counts), limit.v)
                        ELSE Values(social_counts)

\* two pages were fetched without a limit; an identifier occurs on both with
\* different values, and an identifier occurs twice on one page
C13_Witness ==
    /\ pc = "done" /\ social_counts_only /\ ~Truthy(limit)
    /\ Len(pagelog) = 2 /\ Len(result) >= 2
    /\ \E pos \in CounterOccurrences, other \in CounterOccurrences :
           /\ pos[1] # other[1]
           /\ CounterId(IncludedAt(pos)) = CounterId(IncludedAt(other))
           /\ IncludedAt(pos) # IncludedAt(other)
    /\ \E pos \in CounterOccurrences, other \in CounterOccurrences :
           /\ pos[1] = other[1] /\ pos[2] # other[2]
           /\ CounterId(IncludedAt(pos)) = CounterId(IncludedAt(other))

\* page k ends a run that has no limit: it gave no token, or a token that an
\* earlier page of the run had given
EndsPagination(k) == ~Truthy(pagelog[k].token) \/ TokenRepeats(k)

\* C16: with no limit the fetches of a run are the same function of the
\* upstream pages in every mode: the run goes on after a page exactly when
\* the page gave a fresh token, and request k carries the offset
\* start + (k-1)*count and the token of page k-1; nothing of this depends on
\* the mode, so the three modes make the same requests on the same pages.
C16_SamePaginationInAllModes ==
    (IsNone(limit) /\ stop # "fetch")
        => /\ Len(requests) = Len(pagelog)
           /\ \A k \in 1..(Len(pagelog) - 1) : ~EndsPagination(k)
           /\ Len(pagelog) > 0
                => pc = IF EndsPagination(Len(pagelog)) THEN "done" ELSE "loop"
           /\ \A k \in 1..Len(requests) :
                 requests[k] = [start |-> start + (k - 1) * count, count |-> count,
                                token |-> IF k = 1 THEN PNone ELSE pagelog[k - 1].token]

\* C7: fetch k asks for offset start + (k-1)*count with the page size count;
\* the first fetch carries no token and fetch k > 1 carries the token
\* extracted from the page that fetch k-1 returned.
C7_RequestSequence ==
    \A k \in 1..Len(requests) :
        /\ requests[k].start = start + (k - 1) * count
        /\ requests[k].count = count
        /\ requests[k].token = IF k = 1 THEN PNone ELSE pagelog[k - 1].token

\* a run of three fetches
C7_Witness == Len(requests) = 3 /\ Len(pagelog) = 3 /\ pc = "done"

----------------------------------------------------------------------------
(* Calls of the pure helpers: call holds the function and its arguments,   *)
(* ret the returned value once the call has run.                           *)

MaxListLen == 2

TextKeys == {K_text, K_value, K_textViewModel, K_attributes, K_string,
             K_attributedText, K_rawText}

Atoms == {PNone, PStr(<<>>), PStr(S_a), PStr(S_b), PInt(0), PInt(7),
          PBool(TRUE), PBool(FALSE)}

SeqsUpTo(S, n) == UNION {[1..k -> S] : k \in 0..n}

AtomLists ==
    {PList(xs) : xs \in SeqsUpTo({PNone, PStr(<<>>), PStr(S_a), PStr(S_b), PInt(7)},
                                 MaxListLen)}

Dicts1(keys, vals) == {PDict(<<<<k, x>>>>) : k \in keys, x \in vals}

Dicts2(keys, vals) ==
    {PDict(<<<<k1, x1>>, <<k2, x2>>>>) :
        k1 \in keys, k2 \in keys, x1 \in vals, x2 \in vals} \
    {PDict(<<<<k, x1>>, <<k, x2>>>>) : k \in keys, x1 \in vals, x2 \in vals}

Blocks1 == Atoms \cup AtomLists \cup {PDict(<<>>)}
             \cup Dicts1(TextKeys \cup {K_foo}, Atoms)
             \cup Dicts2(TextKeys \cup {K_foo}, {PStr(S_a), PStr(S_b), PInt(7)})

Blocks == Blocks1
            \cup Dicts1({K_text, K_foo}, Dicts1(TextKeys \cup {K_foo}, {PStr(S_b), PNone}))
            \cup {PList(<<x, y>>) : x \in Dicts1({K_text, K_foo}, {PStr(S_a)}),
                                    y \in {PStr(S_b), PList(<<PStr(S_b), PInt(7)>>)}}

\* fetch_all_updates is not running
Idle ==
    /\ pc = "idle"
    /\ social_counts_only = FALSE
    /\ organization_reactions_only = FALSE
    /\ include_raw = FALSE
    /\ limit = PNone
    /\ start = 0
    /\ count = 1
    /\ Locals

driverVars == <<pc, social_counts_only, organization_reactions_only, include_raw,
                limit, start, count, cursor, pagination_token, seen_tokens, collected,
                seen, social_counts, org_reactions, requests, pagelog, stop, result>>

InitText ==
    /\ call \in {[fn |-> "extract_text_block", block |-> b] : b \in Blocks}
    /\ ret = Pending
    /\ Idle

ExtractTextBlock ==
    /\ call.fn = "extract_text_block"
    /\ ret = Pending
    /\ ret' = Returned(extract_text_block(call.block))
    /\ UNCHANGED <<call, driverVars>>

NextText == ExtractTextBlock

SpecText == InitText /\ [][NextText]_vars

\* C8: on an input of an unrecognized shape (a number, a boolean, a mapping
\* with none of text, value, textViewModel, attributes, attributedText,
\* rawText) extract_text_block returns None.
Unrecognized(block) ==
    \/ block.t \in {"int", "bool"}
    \/ /\ IsDict(block)
       /\ \A k \in {K_text, K_value, K_textViewModel, K_attributes, K_attributedText,
                    K_rawText} : ~HasKey(block, k)

C8_UnrecognizedGivesNoText ==
    (call.fn = "extract_text_block" /\ ret # Pending /\ Unrecognized(call.block))
        => ret.v = PNone

----------------------------------------------------------------------------
(* Calls of the reconciliation of one page: simplify_update, collect_updates *)

URN_COMPOSITE == S_urn_li_fsd_update \o <<":","(","A","C","T","I","V","I","T","Y",",","u","r","n",":","l","i",":","a","c","t","i","v","i","t","y",":","1","2","3",",","V","A","R","I","A","N","T",")">>
URN_INNER == <<"A","C","T","I","V","I","T","Y",",","u","r","n",":","l","i",":","a","c","t","i","v","i","t","y",":","1","2","3",",","V","A","R","I","A","N","T">>
URN_A123 == <<"u","r","n",":","l","i",":","a","c","t","i","v","i","t","y",":","1","2","3">>
\* ends in ")" without a "("
URN_NOPAREN == <<"u","r","n",":","9",")">>
T_UpdateAction == <<"f","e","e","d",".","U","p","d","a","t","e","A","c","t","i","o","n">>

\* a counter record of the store
Counter(n) == PDict(<< <<K_numLikes, PInt(n)>>, <<K_numComments, PInt(n + 1)>>,
                       <<K_numShares, PInt(n + 2)>> >>)

\* the counter stores: any of a record under the activity URN, one under the
\* whole update URN, one under the text between the parentheses
StoreChoices ==
    {PDict((IF a THEN << <<URN_A123, Counter(5)>> >> ELSE <<>>)
           \o (IF b THEN << <<URN_COMPOSITE, Counter(10)>> >> ELSE <<>>)
           \o (IF c THEN << <<URN_INNER, Counter(20)>> >> ELSE <<>>)) :
        a \in BOOLEAN, b \in BOOLEAN, c \in BOOLEAN}

\* fields an update record may carry besides "$type" and "entityUrn"
ExtraChoices ==
    { <<>>,
      << <<K_updateMetadata, PDict(<< <<K_permalink, PStr(S_a)>> >>)>> >>,
      << <<K_updateMetadata, PStr(S_a)>> >>,
      << <<K_updateMetadata, PNone>> >>,
      << <<K_permalink, PStr(S_b)>>, <<K_updateMetadata, PList(<<>>)>> >>,
      << <<K_preDashEntityUrn, PStr(URN_A123)>> >>,
      << <<K_dashEntityUrn, PStr(URN_A123)>> >>,
      << <<K_preDashEntityUrn, PStr(URN_U2)>>, <<K_dashEntityUrn, PStr(URN_A123)>> >>,
      << <<K_preDashEntityUrn, PStr(<<>>)>>, <<K_dashEntityUrn, PStr(URN_A123)>> >>,
      << <<K_preDashEntityUrn, PInt(7)>>, <<K_dashEntityUrn, PStr(URN_A123)>> >>,
      << <<K_commentary, PDict(<< <<K_text, PStr(S_a)>> >>)>>,
         <<K_actor, PDict(<< <<K_firstName, PStr(S_a)>> >>)>> >>,
      << <<K_actor, PList(<<PInt(7)>>)>> >> }

UpdateRecords ==
    {PDict(<< <<K_dtype, PStr(T_Update)>>, <<K_entityUrn, urn>> >> \o extra) :
        urn \in {PStr(URN_COMPOSITE), PStr(URN_U1), PStr(URN_NOPAREN), PNone},
        extra \in ExtraChoices}

\* update records with any of the four commentary fields: left out, empty,
\* not a text, or a text of its own
CommentaryRecords ==
    {PDict(<< <<K_dtype, PStr(T_Update)>>, <<K_entityUrn, PStr(URN_U1)>> >>
           \o (IF IsNone(v2) THEN <<>> ELSE << <<K_commentaryV2, v2>> >>)
           \o (IF IsNone(c) THEN <<>> ELSE << <<K_commentary, c>> >>)
           \o (IF IsNone(h) THEN <<>> ELSE << <<K_header, h>> >>)
           \o (IF IsNone(b) THEN <<>> ELSE << <<K_body, b>> >>)) :
        v2 \in {PNone, PStr(<<>>), PInt(7), PStr(S_a)},
        c \in {PNone, PStr(<<>>), PInt(7), PDict(<< <<K_text, PStr(S_b)>> >>)},
        h \in {PNone, PStr(<<>>), PInt(7), PStr(<<"h">>)},
        b \in {PNone, PStr(<<>>), PInt(7), PStr(<<"y">>)}}

SimplifyCalls ==
    {[fn |-> "simplify_update", update |-> u, index |-> <<>>, raw |-> r, store |-> st] :
        u \in UpdateRecords, r \in BOOLEAN, st \in StoreChoices}
    \cup {[fn |-> "simplify_update", update |-> u, index |-> <<>>, raw |-> FALSE,
           store |-> PDict(<<>>)] : u \in CommentaryRecords}

\* included records whose "$type" drifted
DriftRecords ==
    {PDict(<< <<K_dtype, ty>>, <<K_entityUrn, PStr(URN_U1)>> >>) :
        ty \in {PNone, PInt(5), PBool(TRUE), PList(<<PStr(S_Update)>>), PDict(<<>>),
                PStr(T_Update), PStr(T_UpdateAction)}}
    \cup {PDict(<< <<K_entityUrn, PStr(URN_U1)>> >>)}

MaxItems == 3

\* items with two fields: which field names the update depends on the names,
\* the values and the order of the fields
TwoFieldItems ==
    Dicts2({K_entityUrn, K_update, K_updateUrn, K_foo},
           {PStr(URN_U1), PStr(URN_U2), PStr(S_a), PInt(7)})

\* item lists with repeated, unresolved and malformed entries
ItemLists ==
    {PList(xs) : xs \in SeqsUpTo({ItemRef(K_entityUrn, URN_U1), ItemRef(K_update, URN_U2),
                                  ItemRef(K_itemUrn, URN_R1), PStr(URN_U1)}, MaxItems)}

CollectPages ==
    Pages \cup {Page(<<E_U2, rec>>, its, PNone) : rec \in DriftRecords, its \in ItemChoices}
          \cup {Page(<<E_U1, E_U2>>, PList(<<it>>), PNone) : it \in TwoFieldItems}
          \cup {Page(<<E_U1, E_U2>>, its, PNone) : its \in ItemLists}

CollectCalls == {[fn |-> "collect_updates", payload |-> pg] : pg \in CollectPages}

InitReconcile ==
    /\ call \in SimplifyCalls \cup CollectCalls
    /\ ret = Pending
    /\ Idle

SimplifyUpdate ==
    /\ call.fn = "simplify_update"
    /\ ret = Pending
    /\ ret' = Returned(simplify_update(call.update, call.index, call.raw, call.store))
    /\ UNCHANGED <<call, driverVars>>

CollectUpdates ==
    /\ call.fn = "collect_updates"
    /\ ret = Pending
    /\ ret' = Returned(collect_updates(call.payload))
    /\ UNCHANGED <<call, driverVars>>

NextReconcile == SimplifyUpdate \/ CollectUpdates

SpecReconcile == InitReconcile /\ [][NextReconcile]_vars

\* C9: for the update urn:li:fsd_update:(ACTIVITY,urn:li:activity:123,VARIANT)
\* and a store with a counter under urn:li:activity:123 and none under the
\* whole update URN, the record simplify_update returns carries that
\* counter's numLikes, numComments and numShares.
C9_CompositeUrnJoin ==
    (/\ call.fn = "simplify_update" /\ ret # Pending
     /\ Get(call.update, K_entityUrn) = PStr(URN_COMPOSITE)
     /\ HasKey(call.store, URN_A123) /\ ~HasKey(call.store, URN_COMPOSITE)
     /\ ~IsRaise(ret.v))
        => /\ HasKey(ret.v, K_numLikes)
           /\ Get(ret.v, K_numLikes) = Get(Get(call.store, URN_A123), K_numLikes)
           /\ Get(ret.v, K_numComments) = Get(Get(call.store, URN_A123), K_numComments)
           /\ Get(ret.v, K_numShares) = Get(Get(call.store, URN_A123), K_numShares)

\* C10: collect_updates and simplify_update return a value on every record
\* shape; neither raises.
C10_ReconciliationNeverRaises ==
    (call.fn \in {"simplify_update", "collect_updates"} /\ ret # Pending)
        => ~IsRaise(ret.v)

----------------------------------------------------------------------------
(* Calls of index_included *)

MaxIncluded == 2

\* an update record without an identifier, one whose identifier is a list,
\* and a second record under the identifier of E_U1
E_NOID == PDict(<< <<K_dtype, PStr(T_Update)>> >>)
E_LISTID == PDict(<< <<K_entityUrn, PList(<<PStr(URN_U1)>>)>> >>)
E_U1B == PDict(<< <<K_entityUrn, PStr(URN_U1)>>, <<K_foo, PInt(1)>> >>)

IncludedElems == {E_U1, E_U2, E_U1B, E_NOID, E_LISTID, PInt(1), PStr(S_a), PNone}

\* the "included" field: well-formed or not
IncludedValues ==
    {PNone, PInt(3), PStr(S_a \o S_b), PDict(<< <<K_foo, PNone>> >>)}
    \cup {PList(xs) : xs \in SeqsUpTo(IncludedElems, MaxIncluded)}

IndexPayloads ==
    {PDict(<<>>)} \cup {PDict(<< <<K_included, inc>> >>) : inc \in IncludedValues}

InitIndex ==
    /\ call \in {[fn |-> "index_included", payload |-> pl] : pl \in IndexPayloads}
    /\ ret = Pending
    /\ Idle

IndexIncluded ==
    /\ call.fn = "index_included"
    /\ ret = Pending
    /\ ret' = Returned(index_included(call.payload))
    /\ UNCHANGED <<call, driverVars>>

NextIndex == IndexIncluded

SpecIndex == InitIndex /\ [][NextIndex]_vars

\* the index holds only identified mappings of the page's "included" list
WellFormedIndex(index, payload) ==
    \A i \in 1..Len(index) :
        /\ IsDict(index[i][2])
        /\ HasKey(index[i][2], K_entityUrn)
        /\ Get(index[i][2], K_entityUrn) = index[i][1]
        /\ IsList(IncludedOf(payload))
        /\ \E j \in 1..Len(IncludedOf(payload).v) : IncludedOf(payload).v[j] = index[i][2]

\* C11: on every page, whatever its "included" field is, index_included
\* returns a mapping (empty, or holding only the well-formed identified
\* records) and does not raise.
C11_IndexHasNoErrorOutcome ==
    (call.fn = "index_included" /\ ret # Pending)
        => /\ ~IsRaise(ret.v)
           /\ WellFormedIndex(ret.v.v, call.payload)

----------------------------------------------------------------------------
(* Claims about extract_text_block on strings and lists of strings *)

IsListOfStrings(block) == IsList(block) /\ \A i \in 1..Len(block.v) : IsStr(block.v[i])

RECURSIVE Concatenation(_)
\* the characters of the strings xs, in the order of xs, nothing in between
Concatenation(xs) ==
    IF xs = <<>> THEN <<>> ELSE Head(xs).v \o Concatenation(Tail(xs))

\* C14 as stated: a plain string is returned unchanged, and a list of
\* strings gives the concatenation of the strings in list order.
C14_Original ==
    (call.fn = "extract_text_block" /\ ret # Pending)
        => /\ IsStr(call.block) => ret.v = call.block
           /\ IsListOfStrings(call.block) => ret.v = PStr(Concatenation(call.block.v))

\* C14, amended: a plain string is returned unchanged; a list of strings of
\* which one at least is not empty gives the concatenation of the strings in
\* list order, with no separator; a list with no non-empty string gives None.
C14_TextRoundTrip ==
    (call.fn = "extract_text_block" /\ ret # Pending)
        => /\ IsStr(call.block) => ret.v = call.block
           /\ IsListOfStrings(call.block)
                => ret.v = IF \E i \in 1..Len(call.block.v) : call.block.v[i].v # <<>>
                           THEN PStr(Concatenation(call.block.v))
                           ELSE PNone

\* a list of two different non-empty strings was resolved to their
\* concatenation
C14_Witness ==
    /\ call.fn = "extract_text_block" /\ ret # Pending
    /\ call.block = PList(<<PStr(S_a), PStr(S_b)>>)
    /\ ret.v = PStr(S_a \o S_b)

----------------------------------------------------------------------------
(* Calls of simplify_content_entities *)

MaxEntities == 2

\* elements of a contentEntities sequence: two entity mappings, a string, and
\* an entity that carries a contentEntities sequence of its own
EN_1 == PDict(<< <<K_title, PStr(S_a)>>, <<K_entity, PStr(URN_U1)>> >>)
EN_2 == PDict(<< <<K_title, PDict(<< <<K_text, PStr(S_b)>> >>)>>,
                 <<K_landingUrl, PStr(S_a)>> >>)
EN_3 == PDict(<< <<K_title, PStr(S_b)>>, <<K_contentEntities, PList(<<EN_1>>)>> >>)

EntityLists == SeqsUpTo({EN_1, EN_2, EN_3, PStr(S_a)}, MaxEntities)

Carrier(es) == PDict(<< <<K_contentEntities, PList(es)>> >>)

\* the sequence three levels down, under wrapper keys and inside a list
ThreeDeep(es) ==
    PDict(<< <<K_feed, PDict(<< <<K_metadata,
                PList(<< PDict(<< <<K_foo, Carrier(es)>> >>) >>)>> >>)>> >>)

ContentShapes(es) ==
    { Carrier(es),
      PList(es),
      PDict(<< <<K_foo, Carrier(es)>> >>),
      PList(<<PList(<<Carrier(es)>>), Carrier(es)>>),
      ThreeDeep(es),
      PDict(<< <<K_contentEntities, Carrier(es)>> >>),
      PDict(<< <<K_title, PStr(S_a)>>, <<K_contentEntities, PList(es)>>,
               <<K_foo, PList(<<Carrier(es)>>)>> >>) }

Contents == {PNone, PStr(S_a), PInt(7)} \cup UNION {ContentShapes(es) : es \in EntityLists}

InitContent ==
    /\ call \in {[fn |-> "simplify_content_entities", content |-> c] : c \in Contents}
    /\ ret = Pending
    /\ Idle

SimplifyContentEntities ==
    /\ call.fn = "simplify_content_entities"
    /\ ret = Pending
    /\ ret' = Returned(simplify_content_entities(call.content))
    /\ UNCHANGED <<call, driverVars>>

NextContent == SimplifyContentEntities

SpecContent == InitContent /\ [][NextContent]_vars

RECURSIVE ElementCount(_, _)
RECURSIVE ElementCountOfAll(_, _)
\* the number of elements (all of them, or only the mappings) of the
\* contentEntities sequences found anywhere in tree
ElementCount(tree, mappingsOnly) ==
    IF IsDict(tree)
    THEN (IF HasKey(tree, K_contentEntities) /\ IsList(Get(tree, K_contentEntities))
          THEN IF mappingsOnly
               THEN Len(SelectSeq(Get(tree, K_contentEntities).v, IsDict))
               ELSE Len(Get(tree, K_contentEntities).v)
          ELSE 0) + ElementCountOfAll(Values(tree), mappingsOnly)
    ELSE IF IsList(tree) THEN ElementCountOfAll(tree.v, mappingsOnly)
    ELSE 0

ElementCountOfAll(trees, mappingsOnly) ==
    IF trees = <<>> THEN 0
    ELSE ElementCount(Head(trees), mappingsOnly) + ElementCountOfAll(Tail(trees), mappingsOnly)

\* C15 as stated: one output record per element of every contentEntities
\* sequence of the content tree, at any depth.
C15_Original ==
    (call.fn = "simplify_content_entities" /\ ret # Pending)
        => Len(ret.v) = ElementCount(call.content, FALSE)

\* C15, amended: one output record per element that is a mapping of every
\* contentEntities sequence of the content tree, at any depth.
C15_OneRecordPerEntity ==
    (call.fn = "simplify_content_entities" /\ ret # Pending)
        => /\ Len(ret.v) = ElementCount(call.content, TRUE)
           /\ \A i \in 1..Len(ret.v) :
                 Keys(ret.v[i]) = <<PStr(K_title), PStr(K_entity), PStr(K_thumbnails),
                                    PStr(K_landingUrl)>>

\* a sequence of two entities three levels down gave two records
C15_Witness ==
    /\ call.fn = "simplify_content_entities" /\ ret # Pending
    /\ call.content = ThreeDeep(<<EN_1, EN_2>>)
    /\ Len(ret.v) = 2
    /\ Get(ret.v[1], K_title) = PStr(S_a) /\ Get(ret.v[2], K_title) = PStr(S_b)

----------------------------------------------------------------------------
(* main: the command line checks in front of fetch_all_updates *)

\* line 651: the page size that --count all stands for
AllPageSize == 100
\* line 662: the largest page size accepted
MaxCount == 100

UpperCase == <<"A","B","C","D","E","F","G","H","I","J","K","L","M",
               "N","O","P","Q","R","S","T","U","V","W","X","Y","Z">>
LowerCase == <<"a","b","c","d","e","f","g","h","i","j","k","l","m",
               "n","o","p","q","r","s","t","u","v","w","x","y","z">>

\* str.lower() on ASCII text
Lower(s) ==
    [i \in 1..Len(s) |->
        IF \E j \in 1..26 : UpperCase[j] = s[i]
        THEN LowerCase[CHOOSE j \in 1..26 : UpperCase[j] = s[i]]
        ELSE s[i]]

Digits == <<"0","1","2","3","4","5","6","7","8","9">>

IsDigit(c) == \E j \in 1..10 : Digits[j] = c

DigitValue(c) == (CHOOSE j \in 1..10 : Digits[j] = c) - 1

RECURSIVE DecimalValue(_, _)
\* the number the digits ds stand for, after the digits already read as acc
DecimalValue(ds, acc) ==
    IF ds = <<>> THEN acc ELSE DecimalValue(Tail(ds), 10 * acc + DigitValue(Head(ds)))

\* int(s) for text made of an optional sign and decimal digits; any other
\* text of the command lines below raises ValueError
IntParses(s) ==
    LET ds == IF s # <<>> /\ Head(s) \in {"-", "+"} THEN Tail(s) ELSE s
    IN  ds # <<>> /\ \A i \in 1..Len(ds) : IsDigit(ds[i])

IntOf(s) ==
    IF Head(s) = "-" THEN 0 - DecimalValue(Tail(s), 0)
    ELSE IF Head(s) = "+" THEN DecimalValue(Tail(s), 0)
    ELSE DecimalValue(s, 0)

\* faulty variant: the two flags are never seen as conflicting
BothModes_Never(sco, oro) == FALSE

\* line 643
BothModes(sco, oro) == sco /\ oro

\* lines 648-657: Ok(count_value), or the SystemExit of line 656
CountValue(count_arg) ==
    IF Lower(count_arg) = <<"a", "l", "l">> THEN Ok(AllPageSize)
    ELSE IF IntParses(count_arg) THEN Ok(IntOf(count_arg))
    ELSE Raise("SystemExit")

\* lines 643-664: why main exits before it fetches, "" when it does not
Rejection(args) ==
    IF BothModes(args.social_counts_only, args.organization_reactions_only)
    THEN "exclusive"
    ELSE IF IsRaise(CountValue(args.count)) THEN "count"
    ELSE IF CountValue(args.count).v <= 0 THEN "count"
    ELSE IF CountValue(args.count).v > MaxCount THEN "count"
    ELSE ""

CountArgs == { <<"2">>, <<"1", "0", "0">>, <<"a", "l", "l">>, <<"A", "l", "l">>,
               <<"0">>, <<"-", "1">>, <<"1", "0", "1">>, <<"x">>, <<>> }

CommandLines ==
    [fn : {"main"}, social_counts_only : BOOLEAN, organization_reactions_only : BOOLEAN,
     count : CountArgs, limit : {PNone, PInt(1)}]

\* the pages the upstream answers a command line run with
MainPages ==
    {Page(inc, its, tok) : inc \in {<<>>, <<E_U1, E_C1(1), E_R1>>},
                           its \in {PNone, PList(<<ItemRef(K_entityUrn, URN_U1)>>)},
                           tok \in TokenChoices}

InitMain ==
    /\ call \in CommandLines
    /\ ret = Pending
    /\ pc = "main"
    /\ social_counts_only = FALSE
    /\ organization_reactions_only = FALSE
    /\ include_raw = FALSE
    /\ limit = PNone
    /\ start = 0
    /\ count = 1
    /\ Locals

\* lines 638-679: main up to the call of fetch_all_updates; a rejected
\* command line ends in SystemExit
Main ==
    /\ pc = "main"
    /\ \E why \in {Rejection(call)} :
          IF why # ""
          THEN /\ pc' = "rejected"
               /\ stop' = why
               /\ UNCHANGED <<social_counts_only, organization_reactions_only, limit,
                              count>>
          ELSE /\ pc' = "loop"
               /\ social_counts_only' = call.social_counts_only
               /\ organization_reactions_only' = call.organization_reactions_only
               /\ limit' = call.limit
               /\ count' = CountValue(call.count).v
               /\ UNCHANGED stop
    /\ UNCHANGED <<call, ret, include_raw, start, cursor, pagination_token, seen_tokens,
                   collected, seen, social_counts, org_reactions, requests, pagelog,
                   result>>

NextMain ==
    \/ Main
    \/ \E payload \in MainPages : Iterate(payload)
    \/ FetchFails

SpecMain == InitMain /\ [][NextMain]_vars

\* C17: a command line with both --social-counts-only and
\* --organization-reactions-only is rejected with an error: no page is ever
\* fetched and no record is produced.
C17_ModesMutuallyExclusive ==
    (call.fn = "main" /\ call.social_counts_only /\ call.organization_reactions_only
        /\ pc # "main")
        => /\ pc = "rejected" /\ stop = "exclusive"
           /\ requests = <<>> /\ pagelog = <<>> /\ result = <<>>

\* a command line with both flags and an acceptable page size was rejected
C17_Witness ==
    /\ call.fn = "main" /\ call.social_counts_only /\ call.organization_reactions_only
    /\ call.count = <<"2">>
    /\ pc = "rejected"

----------------------------------------------------------------------------
(* Termination of fetch_all_updates *)

\* fetch_all_updates alone, on the pages MainPages; the loop is sequential
\* code and every fetch returns or fails (it has a timeout), so a step that
\* can be taken is taken
NextLive ==
    \/ \E payload \in MainPages : Iterate(payload)
    \/ FetchFails

SpecLive == Init /\ [][NextLive]_vars /\ WF_vars(NextLive)

\* the tokens the upstream draws from
PossibleTokens == {tok \in TokenChoices : IsStr(tok)}

\* C18: the run ends, and it never makes more than T+1 fetches, where T is
\* the number of tokens the upstream can return; this with any limit or
\* none, whatever the pages hold.
C18_RunTerminates ==
    /\ <>(pc # "loop")
    /\ [](Len(requests) <= Cardinality(PossibleTokens) + 1)

\* a run that ended after T+1 fetches, every page of it with records
C18_Witness ==
    /\ pc = "done"
    /\ Len(requests) = Cardinality(PossibleTokens) + 1
    /\ \A k \in 1..Len(pagelog) : Len(pagelog[k].folded) > 0 \/ Len(pagelog[k].order) > 0

----------------------------------------------------------------------------
(* Claims about the identifiers collect_updates locates *)

\* the page's item list, as collect_updates finds it (line 399)
ItemsOf(payload) ==
    LET items == GetOr(get_updates_section(payload), K_items, PList(<<>>))
    IN  IF IsList(items) THEN items.v ELSE <<>>

NamedUrn(kv) == IsStr(kv[2]) /\ EndsWith(kv[1], S_Urn)

HasUpdatePrefix(kv) == IsStr(kv[2]) /\ StartsWith(kv[2].v, S_urn_li_fsd_update)

\* the value of the first str field named ...Urn, None without one
FirstNamedUrn(kvs) ==
    IF \E i \in 1..Len(kvs) : NamedUrn(kvs[i])
    THEN kvs[CHOOSE i \in 1..Len(kvs) :
                 NamedUrn(kvs[i]) /\ \A j \in 1..(i - 1) : ~NamedUrn(kvs[j])][2]
    ELSE PNone

\* the value of the first str field with the update-URN prefix
FirstWithPrefix(kvs) ==
    IF \E i \in 1..Len(kvs) : HasUpdatePrefix(kvs[i])
    THEN kvs[CHOOSE i \in 1..Len(kvs) :
                 HasUpdatePrefix(kvs[i]) /\ \A j \in 1..(i - 1) : ~HasUpdatePrefix(kvs[j])][2]
    ELSE PNone

\* the first of entityUrn, update, updateUrn, itemUrn that is a str
FirstLiteralStr(item) ==
    IF \E i \in 1..Len(LiteralKeys) : IsStr(Get(item, LiteralKeys[i]))
    THEN Get(item, LiteralKeys[CHOOSE i \in 1..Len(LiteralKeys) :
                                   /\ IsStr(Get(item, LiteralKeys[i]))
                                   /\ \A j \in 1..(i - 1) :
                                         ~IsStr(Get(item, LiteralKeys[j]))])
    ELSE PNone

\* the identifier of an item by the strategies in their order: the first str
\* field named ...Urn; failing that the first str field with the update-URN
\* prefix; failing that the first of the literal names that is a str
IdentifierByStrategy(item) ==
    IF ~IsNone(FirstNamedUrn(item.v)) THEN FirstNamedUrn(item.v)
    ELSE IF ~IsNone(FirstWithPrefix(item.v)) THEN FirstWithPrefix(item.v)
    ELSE FirstLiteralStr(item)

Resolves(id, located) == IsStr(id) /\ id.v # <<>> /\ HasKey(located.updates, id.v)

\* C19: the identifier of each item is chosen by the strategies in their
\* order, so whenever the identifier so chosen resolves in the update
\* mapping it is in the located order, and when the order comes from the
\* item list it holds nothing else.
C19_StrategyOrder ==
    (call.fn = "collect_updates" /\ ret # Pending /\ ~IsRaise(ret.v))
        => LET items == SelectSeq(ItemsOf(call.payload), IsDict)
               chosen == {IdentifierByStrategy(items[i]) : i \in 1..Len(items)}
               resolved == {id \in chosen : Resolves(id, ret.v)}
           IN  /\ \A id \in resolved : InSeq(id.v, ret.v.order)
               /\ resolved # {} => \A i \in 1..Len(ret.v.order) :
                                       PStr(ret.v.order[i]) \in resolved

\* the identifier the locator takes from item k (lines 404-417)
LocatedAt(payload, k) == Candidate(ItemsOf(payload)[k])

IsLocated(payload, k, located) ==
    IsDict(ItemsOf(payload)[k]) /\ Resolves(LocatedAt(payload, k), located)

FirstPosition(payload, id, located) ==
    CHOOSE k \in 1..Len(ItemsOf(payload)) :
        /\ IsLocated(payload, k, located) /\ LocatedAt(payload, k).v = id
        /\ \A j \in 1..(k - 1) :
              ~(IsLocated(payload, j, located) /\ LocatedAt(payload, j).v = id)

\* C20: the located order has no duplicates, holds only keys of the update
\* mapping returned with it, and, when it comes from the item list, holds
\* the identifiers located there in the order of their first occurrence.
C20_LocatedOrder ==
    (call.fn = "collect_updates" /\ ret # Pending /\ ~IsRaise(ret.v))
        => LET order == ret.v.order
               fromItems == \E k \in 1..Len(ItemsOf(call.payload)) :
                                IsLocated(call.payload, k, ret.v)
           IN  /\ \A i \in 1..Len(order), j \in 1..Len(order) :
                     i # j => order[i] # order[j]
               /\ \A i \in 1..Len(order) : HasKey(ret.v.updates, order[i])
               /\ fromItems =>
                     /\ \A k \in 1..Len(ItemsOf(call.payload)) :
                           IsLocated(call.payload, k, ret.v)
                               => InSeq(LocatedAt(call.payload, k).v, order)
                     /\ \A i \in 1..Len(order) :
                           \E k \in 1..Len(ItemsOf(call.payload)) :
                               /\ IsLocated(call.payload, k, ret.v)
                               /\ LocatedAt(call.payload, k).v = order[i]
                     /\ \A i \in 1..Len(order), j \in 1..Len(order) :
                           i < j => FirstPosition(call.payload, order[i], ret.v)
                                       < FirstPosition(call.payload, order[j], ret.v)

\* an item list that names the second update, then the first, then the
\* second again gave the order second, first
C20_Witness ==
    /\ call.fn = "collect_updates" /\ ret # Pending /\ ~IsRaise(ret.v)
    /\ ItemsOf(call.payload) = <<ItemRef(K_update, URN_U2), ItemRef(K_entityUrn, URN_U1),
                                ItemRef(K_update, URN_U2)>>
    /\ ret.v.order = <<URN_U2, URN_U1>>


\* element k of included is an update-typed record named id
IsIncludedAs(payload, k, id) ==
    LET elems == Elems(IncludedOf(payload))
    IN  IsIncludedUpdate(elems[k]) /\ Get(elems[k], K_entityUrn).v = id

FirstIncluded(payload, id) ==
    CHOOSE k \in 1..Len(Elems(IncludedOf(payload))) :
        /\ IsIncludedAs(payload, k, id)
        /\ \A j \in 1..(k - 1) : ~IsIncludedAs(payload, j, id)

\* C21: the located order is the order in which the update-typed records
\* appear in included exactly when no item of the item list names an
\* identifier that resolves (no item list, an empty one, or none of its
\* candidates resolving); when some item resolves, every entry of the order
\* is located by an item and nothing comes from the order of included.
C21_FallbackToIncludedOrder ==
    (call.fn = "collect_updates" /\ ret # Pending /\ ~IsRaise(ret.v))
        => LET order == ret.v.order
               included == Elems(IncludedOf(call.payload))
               fromItems == \E k \in 1..Len(ItemsOf(call.payload)) :
                                IsLocated(call.payload, k, ret.v)
           IN  /\ ~fromItems =>
                     /\ \A k \in 1..Len(included) :
                           IsIncludedUpdate(included[k])
                               => InSeq(Get(included[k], K_entityUrn).v, order)
                     /\ \A i \in 1..Len(order) :
                           \E k \in 1..Len(included) :
                               IsIncludedAs(call.payload, k, order[i])
                     /\ \A i \in 1..Len(order), j \in 1..Len(order) :
                           i < j => FirstIncluded(call.payload, order[i])
                                       < FirstIncluded(call.payload, order[j])
               /\ fromItems =>
                     \A i \in 1..Len(order) :
                         \E k \in 1..Len(ItemsOf(call.payload)) :
                             /\ IsLocated(call.payload, k, ret.v)
                             /\ LocatedAt(call.payload, k).v = order[i]

\* an item list whose only entry names an identifier that does not resolve:
\* the order is that of the two updates in included
C21_Witness ==
    /\ call.fn = "collect_updates" /\ ret # Pending /\ ~IsRaise(ret.v)
    /\ ItemsOf(call.payload) = <<ItemRef(K_itemUrn, URN_R1)>>
    /\ IncludedOf(call.payload) = PList(<<E_U1, E_U2>>)
    /\ ret.v.order = <<URN_U1, URN_U2>>


----------------------------------------------------------------------------
(* Claims about the records accumulated in updates mode *)

\* the identifiers the locator gave for the fetched pages
LocatedIds == UNION {{pagelog[k].order[i] : i \in 1..Len(pagelog[k].order)} :
                         k \in 1..Len(pagelog)}

\* C22: in updates mode with no limit the identifiers of the returned records
\* are exactly the identifiers the locator gave for the fetched pages.
C22_ResultIsUnionOfLocated ==
    (pc = "done" /\ UpdatesMode /\ IsNone(limit))
        => {UrnOf(result[i]) : i \in 1..Len(result)} = {PStr(id) : id \in LocatedIds}

\* two pages, each locating an identifier the other did not
C22_Witness ==
    /\ pc = "done" /\ UpdatesMode /\ IsNone(limit) /\ Len(pagelog) = 2
    /\ pagelog[1].order = <<URN_U2>> /\ pagelog[2].order = <<URN_U1>>
    /\ Len(result) = 2

\* the first place <<page, index in the page's order>> where id was located
FirstLocated(id) ==
    CHOOSE pos \in UNION {{<<k, i>> : i \in 1..Len(pagelog[k].order)} :
                              k \in 1..Len(pagelog)} :
        /\ pagelog[pos[1]].order[pos[2]] = id
        /\ \A k \in 1..Len(pagelog) : \A i \in 1..Len(pagelog[k].order) :
              pagelog[k].order[i] = id => ~Later(pos, <<k, i>>)

PositionIn(recs, id) == CHOOSE i \in 1..Len(recs) : UrnOf(recs[i]) = PStr(id)

IsIn(recs, id) == \E i \in 1..Len(recs) : UrnOf(recs[i]) = PStr(id)

\* C23: in updates mode the returned records are in the order in which their
\* identifiers were first located: when a is first located before b (on an
\* earlier page, or earlier in the order of the same page) and b has a record
\* in the result, a has one too and it comes first.
C23_FirstOccurrenceOrder ==
    (pc = "done" /\ UpdatesMode)
        => \A a \in LocatedIds, b \in LocatedIds :
              (Later(FirstLocated(b), FirstLocated(a)) /\ IsIn(result, b))
                  => /\ IsIn(result, a)
                     /\ PositionIn(result, a) < PositionIn(result, b)

\* the second page located first the identifier of the first page, then a new
\* one; the result has the first page's record first
C23_Witness ==
    /\ pc = "done" /\ UpdatesMode /\ Len(pagelog) = 2
    /\ pagelog[1].order = <<URN_U2>> /\ pagelog[2].order = <<URN_U2, URN_U1>>
    /\ Len(result) = 2 /\ UrnOf(result[1]) = PStr(URN_U2)

IsPrefixOf(xs, ys) == Len(xs) <= Len(ys) /\ \A i \in 1..Len(xs) : ys[i] = xs[i]

\* C24: in updates mode every step of the run leaves the records accumulated
\* so far where they are and as they are: the accumulated sequence before the
\* step is a prefix of the one after it, so no later page changes a field of
\* an emitted record, its social counts included.
C24_AppendOnly == [][UpdatesMode => IsPrefixOf(collected, collected')]_vars

\* the first page gave the record of update 1 with one like; the second page
\* brought a counter of two likes for it and a new update: the first record
\* still has one like
C24_Witness ==
    /\ UpdatesMode /\ Len(pagelog) = 2 /\ Len(collected) = 2
    /\ UrnOf(collected[1]) = PStr(URN_U1)
    /\ Get(collected[1], K_numLikes) = PInt(1)
    /\ Get(Get(social_counts, URN_U1), K_numLikes) = PInt(2)
    /\ Len(pagelog[2].folded) = 1


----------------------------------------------------------------------------
(* Calls of simplify_actor *)

S_c == <<"c">>
S_p == <<"p">>
S_q == <<"q">>

\* a field of a record under construction; None stands for a field left out
Field(key, value) == IF IsNone(value) THEN <<>> ELSE << <<key, value>> >>

\* the records a miniProfile field may hold
MiniProfiles ==
    {PDict(Field(K_firstName, first) \o Field(K_localizedLastName, last)
           \o Field(K_publicIdentifier, pid)) :
        first \in {PNone, PStr(S_a)}, last \in {PNone, PStr(S_b)},
        pid \in {PNone, PStr(S_q)}}

\* actor records: with and without names of their own, a public identifier
\* and a miniProfile (a record, or a value that is not a record)
ActorRecords ==
    {PDict(Field(K_firstName, first) \o Field(K_lastName, last)
           \o Field(K_publicIdentifier, pid) \o Field(K_miniProfile, mini)) :
        first \in {PNone, PStr(<<>>), PStr(S_c)}, last \in {PNone, PStr(S_b)},
        pid \in {PNone, PStr(<<>>), PStr(S_p)},
        mini \in {PNone, PStr(S_a)} \cup MiniProfiles}

\* the actor is given as a record, as an identifier the index resolves or
\* does not resolve, or not at all
ActorCalls ==
    {[fn |-> "simplify_actor", actor_ref |-> a, index |-> <<>>] :
        a \in ActorRecords \cup {PNone, PStr(URN_A2), PStr(<<>>)}}
    \cup {[fn |-> "simplify_actor", actor_ref |-> PStr(URN_A2),
           index |-> << <<PStr(URN_A2), a>> >>] : a \in ActorRecords}

InitActor ==
    /\ call \in ActorCalls
    /\ ret = Pending
    /\ Idle

SimplifyActor ==
    /\ call.fn = "simplify_actor"
    /\ ret = Pending
    /\ ret' = Returned(simplify_actor(call.actor_ref, call.index))
    /\ UNCHANGED <<call, driverVars>>

NextActor == SimplifyActor

SpecActor == InitActor /\ [][NextActor]_vars

\* the record the actor reference resolves to (lines 228-233)
ResolvedActor(c) ==
    IF IsDict(c.actor_ref) THEN c.actor_ref ELSE IdxGet(c.index, c.actor_ref)

NameKeys == {K_firstName, K_lastName, K_localizedFirstName, K_localizedLastName}

CarriesName(rec) == \E k \in NameKeys : HasKey(rec, k)

\* first and last of a record, the localized variant standing in for a
\* missing one, joined by one space; one alone when the other is missing
AssembledName(rec) ==
    LET first == IF HasKey(rec, K_firstName) THEN Get(rec, K_firstName)
                 ELSE Get(rec, K_localizedFirstName)
        last == IF HasKey(rec, K_lastName) THEN Get(rec, K_lastName)
                ELSE Get(rec, K_localizedLastName)
    IN  IF IsNone(first) THEN last
        ELSE IF IsNone(last) THEN first
        ELSE PStr(first.v \o <<" ">> \o last.v)

\* C25: when the resolved actor record has no name field of its own and has
\* a miniProfile record that carries name fields, the name of the returned
\* record is the one assembled from the miniProfile fields, whether or not
\* the actor record has a publicIdentifier.
C25_MiniProfileName ==
    (/\ call.fn = "simplify_actor" /\ ret # Pending
     /\ IsDict(ResolvedActor(call))
     /\ ~CarriesName(ResolvedActor(call))
     /\ IsDict(Get(ResolvedActor(call), K_miniProfile))
     /\ CarriesName(Get(ResolvedActor(call), K_miniProfile)))
        => /\ IsDict(ret.v)
           /\ Get(ret.v, K_name) = AssembledName(Get(ResolvedActor(call), K_miniProfile))

\* the same restricted to actor records without a publicIdentifier of their own
C25_WithoutPublicIdentifier ==
    (call.fn = "simplify_actor" /\ ret # Pending /\ IsDict(ResolvedActor(call))
     /\ ~Truthy(Get(ResolvedActor(call), K_publicIdentifier)))
        => C25_MiniProfileName


----------------------------------------------------------------------------
(* Claims about the fields simplify_update fills *)

\* the text of s between its first "(" and its final character
BetweenParens(s) ==
    LET open == CHOOSE i \in 1..Len(s) :
                    s[i] = "(" /\ \A j \in 1..(i - 1) : s[j] # "("
    IN  SubSeq(s, open + 1, Len(s) - 1)

IsWrapped(id) == IsStr(id) /\ EndsWith(id.v, <<")">>) /\ \E i \in 1..Len(id.v) : id.v[i] = "("

\* the preDashEntityUrn value, the dashEntityUrn value when that is missing
DashReference(update) ==
    IF Truthy(Get(update, K_preDashEntityUrn)) THEN Get(update, K_preDashEntityUrn)
    ELSE Get(update, K_dashEntityUrn)

\* the counter the join attaches: the first lookup that succeeds among the
\* update's identifier, its unwrapped identifier and its dash reference
JoinedCounter(update, store) ==
    LET id == Get(update, K_entityUrn)
    IN  IF IsStr(id) /\ HasKey(store, id.v) THEN Get(store, id.v)
        ELSE IF IsWrapped(id) /\ HasKey(store, BetweenParens(id.v))
        THEN Get(store, BetweenParens(id.v))
        ELSE IF IsStr(DashReference(update)) /\ HasKey(store, DashReference(update).v)
        THEN Get(store, DashReference(update).v)
        ELSE PNone

CountKeys == {K_numLikes, K_numComments, K_numShares}

\* C26: the counter joined to an update is the store entry under its own
\* identifier; failing that, for an identifier ending in ")", the entry under
\* the text between its first "(" and its final ")"; failing that the entry
\* under its preDashEntityUrn, or its dashEntityUrn when it has no
\* preDashEntityUrn.  The record carries that counter's numLikes, numComments
\* and numShares, and none of the three fields when no lookup succeeds.
C26_SocialJoinOrder ==
    (call.fn = "simplify_update" /\ ret # Pending /\ ~IsRaise(ret.v))
        => LET joined == JoinedCounter(call.update, call.store)
           IN  IF IsNone(joined) THEN \A k \in CountKeys : ~HasKey(ret.v, k)
               ELSE \A k \in CountKeys :
                        HasKey(ret.v, k) /\ Get(ret.v, k) = Get(joined, k)

\* the store has counters under the unwrapped identifier and under the dash
\* reference, none under the update's identifier: the unwrapped one is joined
C26_Witness ==
    /\ call.fn = "simplify_update" /\ ret # Pending /\ ~IsRaise(ret.v)
    /\ Get(call.update, K_entityUrn) = PStr(URN_COMPOSITE)
    /\ Get(call.update, K_preDashEntityUrn) = PStr(URN_A123)
    /\ HasKey(call.store, URN_INNER) /\ HasKey(call.store, URN_A123)
    /\ ~HasKey(call.store, URN_COMPOSITE)
    /\ Get(ret.v, K_numLikes) = PInt(20)


\* the counter occurrences for id on the pages up to page k
CountersUpTo(id, k) ==
    {pos \in CounterOccurrences : pos[1] <= k /\ CounterId(IncludedAt(pos)) = PStr(id)}

\* the last of them
LatestUpTo(id, k) ==
    CHOOSE pos \in CountersUpTo(id, k) :
        \A other \in CountersUpTo(id, k) : ~Later(other, pos)

\* C27: the social counts of a record emitted while folding page n are those
\* of the latest counter for its identifier on pages 1..n, page n's own
\* counters included wherever they stand in the page; with no counter on
\* those pages the record has no counts, whatever later pages bring.
C27_CountsFromPagesSoFar ==
    UpdatesMode =>
        \A n \in 1..Len(pagelog) : \A i \in 1..Len(pagelog[n].folded) :
            LET rec == pagelog[n].folded[i]
                id == UrnOf(rec).v
            IN  IF CountersUpTo(id, n) = {}
                THEN \A k \in CountKeys : ~HasKey(rec, k)
                ELSE \A k \in CountKeys :
                         /\ HasKey(rec, k)
                         /\ Get(rec, k) = Get(IncludedAt(LatestUpTo(id, n)), k)

\* update 1 was emitted on the first page, which had no counter for it; the
\* second page brought one: the returned record has no counts
C27_Witness ==
    /\ pc = "done" /\ UpdatesMode /\ Len(pagelog) = 2
    /\ CountersUpTo(URN_U1, 1) = {} /\ CountersUpTo(URN_U1, 2) # {}
    /\ Len(result) >= 1 /\ UrnOf(result[1]) = PStr(URN_U1)
    /\ ~HasKey(result[1], K_numLikes)
    /\ HasKey(social_counts, URN_U1)


\* the four commentary fields in the order of the statement
CommentaryOrder == <<K_commentaryV2, K_commentary, K_header, K_body>>

\* the resolved text of commentary field i of an update, None when the
\* update does not have the field
CommentaryText(update, i) ==
    IF HasKey(update, CommentaryOrder[i])
    THEN extract_text_block(Get(update, CommentaryOrder[i]))
    ELSE PNone

\* C28: the commentary of the record is the resolved text of the first of
\* commentaryV2, commentary, header, body that the update has and that
\* resolves to a non-empty text; a later field counts only when every
\* earlier one is missing or resolves to no text or an empty one.  With no
\* such field the record has no non-empty commentary.
C28_CommentaryOrder ==
    (call.fn = "simplify_update" /\ ret # Pending /\ ~IsRaise(ret.v))
        => LET yields == {i \in 1..Len(CommentaryOrder) :
                              Truthy(CommentaryText(call.update, i))}
           IN  IF yields = {} THEN ~Truthy(Get(ret.v, K_commentary))
               ELSE \E i \in yields :
                       /\ \A j \in yields : i <= j
                       /\ Get(ret.v, K_commentary) = CommentaryText(call.update, i)

\* commentaryV2 is empty, commentary is not a text, header and body both
\* have a text: the header's is emitted
C28_Witness ==
    /\ call.fn = "simplify_update" /\ ret # Pending /\ ~IsRaise(ret.v)
    /\ Get(call.update, K_commentaryV2) = PStr(<<>>)
    /\ Get(call.update, K_commentary) = PInt(7)
    /\ Get(call.update, K_header) = PStr(<<"h">>)
    /\ Get(call.update, K_body) = PStr(<<"y">>)
    /\ Get(ret.v, K_commentary) = PStr(<<"h">>)


----------------------------------------------------------------------------
(* Calls of extract_pagination_token and get_updates_section *)

\* what a paginationToken field may hold; None stands for a field left out
TokenValues == {PNone, PStr(<<>>), PStr(TOK_A), PStr(TOK_B), PInt(7)}

\* {"paginationToken": top,
\*  "data": {"paginationToken": root,
\*           "feed": {"paginationToken": sec,
\*                    "metadata": {"paginationToken": meta},
\*                    "items": [{"foo": {"paginationToken": deep}}]}}}
\* without "items" the page has no item list
TokenPage(top, root, sec, meta, deep, items) ==
    PDict(Field(K_paginationToken, top)
          \o << <<K_data,
                  PDict(Field(K_paginationToken, root)
                        \o << <<K_feed,
                                PDict(Field(K_paginationToken, sec)
                                      \o << <<K_metadata,
                                              PDict(Field(K_paginationToken, meta))>> >>
                                      \o (IF items
                                          THEN << <<K_items, PList(<<PDict(<< <<K_foo,
                                                    PDict(Field(K_paginationToken, deep))>> >>)>>)>> >>
                                          ELSE <<>>))>> >>)>> >>)

TokenPages ==
    {TokenPage(top, root, sec, meta, deep, items) :
        top \in TokenValues, root \in TokenValues, sec \in TokenValues,
        meta \in TokenValues, deep \in {PNone, PStr(TOK_B)}, items \in BOOLEAN}

InitToken ==
    /\ call \in {[fn |-> "extract_pagination_token", payload |-> pg] : pg \in TokenPages}
    /\ ret = Pending
    /\ Idle

ExtractPaginationToken ==
    /\ call.fn = "extract_pagination_token"
    /\ ret = Pending
    /\ ret' = Returned(extract_pagination_token(call.payload))
    /\ UNCHANGED <<call, driverVars>>

NextToken == ExtractPaginationToken

SpecToken == InitToken /\ [][NextToken]_vars

HoldsToken(node) == IsDict(node) /\ IsStr(Get(node, K_paginationToken))

RECURSIVE NextLevel(_)
\* the containers directly under the given nodes, in their order
NextLevel(nodes) ==
    IF nodes = <<>> THEN <<>>
    ELSE (IF IsDict(Head(nodes)) THEN SelectSeq(Values(Head(nodes)), IsContainer)
          ELSE SelectSeq(Head(nodes).v, IsContainer)) \o NextLevel(Tail(nodes))

RECURSIVE FirstTokenByLevel(_)
\* the paginationToken string nearest to the given nodes, level by level and
\* in document order within a level; None without one
FirstTokenByLevel(nodes) ==
    IF nodes = <<>> THEN PNone
    ELSE IF \E i \in 1..Len(nodes) : HoldsToken(nodes[i])
    THEN Get(nodes[CHOOSE i \in 1..Len(nodes) :
                       HoldsToken(nodes[i]) /\ \A j \in 1..(i - 1) : ~HoldsToken(nodes[j])],
             K_paginationToken)
    ELSE FirstTokenByLevel(NextLevel(nodes))

\* the paginationToken string nearest to the root of the item-list sub-tree
SectionToken(payload) ==
    IF Truthy(get_updates_section(payload))
    THEN FirstTokenByLevel(<<get_updates_section(payload)>>)
    ELSE PNone

\* C29: when the sub-tree the item-list search locates holds a
\* paginationToken string, the scanner returns the breadth-first first one of
\* that sub-tree, whatever paginationToken strings the page has elsewhere;
\* when the sub-tree has none, the breadth-first first one of the whole
\* page; when the page has none, no token.
C29_TokenPrecedence ==
    (call.fn = "extract_pagination_token" /\ ret # Pending)
        => ret.v = IF IsStr(SectionToken(call.payload)) THEN SectionToken(call.payload)
                   ELSE FirstTokenByLevel(<<call.payload>>)

\* the same for pages whose sub-tree does not hold an empty token first
C29_NonEmptySectionToken ==
    (call.fn = "extract_pagination_token" /\ ret # Pending
     /\ SectionToken(call.payload) # PStr(<<>>))
        => C29_TokenPrecedence


----------------------------------------------------------------------------
(* get_updates_section and extract_pagination_token.scan on object graphs. *)
(* The objects have identities and may refer to each other in cycles, so    *)
(* the searches are modelled one loop iteration at a time, with the queue   *)
(* and the visited set of the code.                                          *)

MaxNodes == 3

NodeIds == 1..MaxNodes

\* Object n is the dict
\*   {"items": [], "paginationToken": NodeToken(n),   (when marked[n])
\*    "foo": <object foo[n]>,                          (when foo[n] # 0)
\*    "bar": [<object bar[n]>]}                        (when bar[n] # 0)
\* and the list under "bar" is the object MaxNodes + n.  Object 1 is the
\* root: payload["data"] for the item-list search, the argument of scan.
\* Only the root has a "bar".
Graphs ==
    {[marked |-> mk, foo |-> f, bar |-> [n \in NodeIds |-> IF n = 1 THEN b ELSE 0]] :
        mk \in {m \in [NodeIds -> BOOLEAN] : ~m[1]},
        f \in [NodeIds -> 0..MaxNodes], b \in 0..MaxNodes}

NodeToken(n) == PStr(<< <<"1","2","3","4","5","6","7","8","9">>[n] >>)

NodeRef(n) == [t |-> "node", id |-> n]

IsDictObject(obj) == obj \in NodeIds

\* lines 373-379: the dicts among the values of a dict, and the dicts among
\* the items of its list values, in the order of the fields
SectionChildren(g, node) ==
    (IF g.foo[node] # 0 THEN <<g.foo[node]>> ELSE <<>>)
    \o (IF g.bar[node] # 0 THEN <<g.bar[node]>> ELSE <<>>)

\* lines 476-482: the dicts and lists among the values of a dict or the
\* items of a list
ScanChildren(g, obj) ==
    IF IsDictObject(obj)
    THEN (IF g.marked[obj] THEN <<2 * MaxNodes + obj>> ELSE <<>>)
         \o (IF g.foo[obj] # 0 THEN <<g.foo[obj]>> ELSE <<>>)
         \o (IF g.bar[obj] # 0 THEN <<MaxNodes + obj>> ELSE <<>>)
    ELSE IF obj <= 2 * MaxNodes THEN <<g.bar[obj - MaxNodes]>>
    ELSE <<>>

\* faulty variant: no object counts as visited
Visited_Never(obj, visited) == FALSE

\* lines 366 and 469: the identity of the object is in the visited set
Visited(obj, visited) == obj \in visited

Running(queue, visited, expanded) ==
    [t |-> "run", queue |-> queue, visited |-> visited, expanded |-> expanded]

\* the value returned, with the objects that passed the visited test in order
Finished(x, expanded) == [t |-> "ret", v |-> x, expanded |-> expanded]

GraphCalls ==
    {[fn |-> f, graph |-> g] : f \in {"get_updates_section", "scan"}, g \in Graphs}

\* lines 357-361 and 464-465: the queue holds the root, nothing is visited
InitGraph ==
    /\ call \in GraphCalls
    /\ ret = Running(<<1>>, {}, <<>>)
    /\ Idle

\* one iteration of the loop of lines 363-379
SectionLoop ==
    /\ call.fn = "get_updates_section" /\ ret.t = "run" /\ ret.queue # <<>>
    /\ LET node == Head(ret.queue)
       IN  ret' = IF Visited(node, ret.visited)
                  THEN Running(Tail(ret.queue), ret.visited, ret.expanded)
                  ELSE IF call.graph.marked[node]
                  THEN Finished(NodeRef(node), Append(ret.expanded, node))
                  ELSE Running(Tail(ret.queue) \o SectionChildren(call.graph, node),
                               ret.visited \cup {node}, Append(ret.expanded, node))
    /\ UNCHANGED <<call, driverVars>>

\* line 381: the queue is empty
SectionNotFound ==
    /\ call.fn = "get_updates_section" /\ ret.t = "run" /\ ret.queue = <<>>
    /\ ret' = Finished(PDict(<<>>), ret.expanded)
    /\ UNCHANGED <<call, driverVars>>

\* one iteration of the loop of lines 466-483
ScanLoop ==
    /\ call.fn = "scan" /\ ret.t = "run" /\ ret.queue # <<>>
    /\ LET current == Head(ret.queue)
       IN  ret' = IF Visited(current, ret.visited)
                  THEN Running(Tail(ret.queue), ret.visited, ret.expanded)
                  ELSE IF IsDictObject(current) /\ call.graph.marked[current]
                  THEN Finished(NodeToken(current), Append(ret.expanded, current))
                  ELSE Running(Tail(ret.queue) \o ScanChildren(call.graph, current),
                               ret.visited \cup {current}, Append(ret.expanded, current))
    /\ UNCHANGED <<call, driverVars>>

\* line 484: the queue is empty
ScanNotFound ==
    /\ call.fn = "scan" /\ ret.t = "run" /\ ret.queue = <<>>
    /\ ret' = Finished(PNone, ret.expanded)
    /\ UNCHANGED <<call, driverVars>>

NextGraph == SectionLoop \/ SectionNotFound \/ ScanLoop \/ ScanNotFound

\* the loops run on: nothing but the search itself can stop an iteration
SpecGraph == InitGraph /\ [][NextGraph]_vars /\ WF_vars(NextGraph)

RECURSIVE Within(_, _)
\* the dicts within k references of the root
Within(g, k) ==
    IF k = 0 THEN {1}
    ELSE (Within(g, k - 1)
            \cup {g.foo[n] : n \in Within(g, k - 1)}
            \cup {g.bar[n] : n \in Within(g, k - 1)}) \ {0}

\* the number of references from the root to a dict within reach
Distance(g, n) ==
    CHOOSE k \in 0..MaxNodes :
        n \in Within(g, k) /\ \A j \in 0..(k - 1) : n \notin Within(g, j)

HasItemList(g) == {n \in Within(g, MaxNodes) : g.marked[n]}

NoRepeat(xs) == \A i \in 1..Len(xs), j \in 1..Len(xs) : i # j => xs[i] # xs[j]

\* C30: on every finite object graph, cyclic ones included, both searches
\* return; no object is expanded twice; the item-list search returns a dict
\* with an item list that no other such dict is nearer to the root than, and
\* the empty mapping when the graph has no dict with an item list.
C30_SearchesTerminate ==
    /\ <>(ret.t = "ret")
    /\ [](NoRepeat(ret.expanded))
    /\ []((call.fn = "get_updates_section" /\ ret.t = "ret")
            => IF HasItemList(call.graph) = {} THEN ret.v = PDict(<<>>)
               ELSE /\ ret.v.t = "node" /\ ret.v.id \in HasItemList(call.graph)
                    /\ \A n \in HasItemList(call.graph) :
                          Distance(call.graph, ret.v.id) <= Distance(call.graph, n))

\* the root refers to itself and, through its list, to a second dict; the
\* second and a third dict refer to each other, and the third has the item
\* list: it is returned
C30_Witness ==
    /\ call.fn = "get_updates_section" /\ ret.t = "ret"
    /\ call.graph.foo[1] = 1 /\ call.graph.bar[1] = 2 /\ call.graph.foo[2] = 3
    /\ call.graph.foo[3] = 2 /\ call.graph.marked[3]
    /\ ret.v = NodeRef(3)


----------------------------------------------------------------------------
(* Claim about the field priority of extract_text_block *)

\* the fields that decide, in their order; "attributes" decides for "string"
PriorityFields == <<K_text, K_value, K_textViewModel, K_attributes,
                    K_attributedText, K_rawText>>

\* the value resolved when field i decides
ResolvedField(block, i) ==
    IF PriorityFields[i] = K_attributes THEN Get(block, K_string)
    ELSE Get(block, PriorityFields[i])

FirstPresent(block) ==
    CHOOSE i \in 1..Len(PriorityFields) :
        /\ HasKey(block, PriorityFields[i])
        /\ \A j \in 1..(i - 1) : ~HasKey(block, PriorityFields[j])

\* C31: for a mapping that has any of text, value, textViewModel,
\* attributes, attributedText, rawText, the result is the resolution of the
\* first of them that is present (for attributes: of the value under
\* "string"); the fields after it are ignored, also when the first present
\* one resolves to no text.
C31_FieldPriority ==
    (/\ call.fn = "extract_text_block" /\ ret # Pending
     /\ IsDict(call.block)
     /\ \E i \in 1..Len(PriorityFields) : HasKey(call.block, PriorityFields[i]))
        => ret.v = extract_text_block(ResolvedField(call.block, FirstPresent(call.block)))

\* "text" holds a number and "value" a text: the result is no text
C31_Witness ==
    /\ call.fn = "extract_text_block" /\ ret # Pending
    /\ call.block = PDict(<< <<K_value, PStr(S_a)>>, <<K_text, PInt(7)>> >>)
    /\ ret.v = PNone


----------------------------------------------------------------------------
(* Claim about the organization-reaction store *)

IsReaction(item) == IsDict(item) /\ HasKey(item, K_reactionByOrganizationActor)

\* the key of a reaction record: its entityUrn, else its urn, else its $id,
\* else its canonical JSON text
ReactionKey(item) ==
    LET named == IF Truthy(Get(item, K_entityUrn)) THEN Get(item, K_entityUrn)
                 ELSE IF Truthy(Get(item, K_urn)) THEN Get(item, K_urn)
                 ELSE Get(item, K_did)
    IN  IF IsStr(named) THEN named ELSE [t |-> "json", v |-> Canon(item)]

\* the reaction records of the fetched pages, as positions <<page, index>>
ReactionOccurrences ==
    {pos \in UNION {{<<k, i>> : i \in 1..Len(pagelog[k].included.v)} :
                        k \in 1..Len(pagelog)} : IsReaction(IncludedAt(pos))}

IsFirstOccurrence(pos) ==
    \A other \in ReactionOccurrences :
        ReactionKey(IncludedAt(other)) = ReactionKey(IncludedAt(pos)) => ~Later(pos, other)

FirstOccurrenceOf(rec) ==
    CHOOSE pos \in ReactionOccurrences :
        ReactionKey(IncludedAt(pos)) = ReactionKey(rec) /\ IsFirstOccurrence(pos)

\* recs holds, for distinct keys, the first record seen under the key, in
\* the order in which the keys first appeared
FirstSeenInOrder(recs) ==
    /\ \A i \in 1..Len(recs), j \in 1..Len(recs) :
          i # j => ReactionKey(recs[i]) # ReactionKey(recs[j])
    /\ \A i \in 1..Len(recs) :
          \E pos \in ReactionOccurrences :
              IsFirstOccurrence(pos) /\ IncludedAt(pos) = recs[i]
    /\ \A i \in 1..(Len(recs) - 1) :
          Later(FirstOccurrenceOf(recs[i + 1]), FirstOccurrenceOf(recs[i]))

\* C32: in organization-reactions-only mode the store keeps the first record
\* seen under each key; a record whose key was harvested on the same or an
\* earlier page never replaces it.  The store holds one record for every key
\* seen, in order of first appearance; the returned sequence is the store's
\* records, the first `limit` of them when a limit is set.
C32_FirstReactionKept ==
    organization_reactions_only
        => /\ FirstSeenInOrder(FullResults)
           /\ \A pos \in ReactionOccurrences :
                 \E i \in 1..Len(FullResults) :
                     ReactionKey(FullResults[i]) = ReactionKey(IncludedAt(pos))
           /\ pc = "done" => /\ IsPrefixOf(result, FullResults)
                             /\ ~Truthy(limit) => result = FullResults

\* two pages without a limit: the key of the first page's record comes again
\* on the second page, twice and with another record first; the first page's
\* record is returned, before the records the second page brought
C32_Witness ==
    /\ pc = "done" /\ organization_reactions_only /\ ~Truthy(limit)
    /\ Len(pagelog) = 2
    /\ pagelog[1].included = PList(<<E_U1, E_C1(1), E_R1>>)
    /\ pagelog[2].included = PList(<<E_U1, E_R1B, E_R1, E_R3>>)
    /\ result = <<E_R1, E_R3>>


----------------------------------------------------------------------------
(* fetch_cards of fetch_linkedin_posts.py: the notification-card collector. *)
(* The locals of the run (start, collected, seen) are fields of ret, with   *)
(* the log of the offsets requested and of what each page answered.          *)

MaxStart == 3

K_nextStart == <<"n","e","x","t","S","t","a","r","t">>
S_Card == <<"c","o","m",".","l","i","n","k","e","d","i","n",".","v","o","y","a","g","e","r",
            ".","d","a","s","h",".","i","d","e","n","t","i","t","y",".",
            "n","o","t","i","f","i","c","a","t","i","o","n","s",".","C","a","r","d">>
URN_C1 == <<"c","1">>
URN_C2 == <<"c","2">>

\* extract_cards: the simplified cards of a page, of which the collector
\* reads the entityUrn alone; TypeError when included cannot be iterated
extract_cards(payload) ==
    IF ~IsIterable(IncludedOf(payload)) THEN Raise("TypeError")
    ELSE LET isCard(item) == IsDict(item) /\ Get(item, K_dtype) = PStr(S_Card)
             cards == SelectSeq(Elems(IncludedOf(payload)), isCard)
         IN  PList([i \in 1..Len(cards) |->
                       PDict(<< <<K_entityUrn, Get(cards[i], K_entityUrn)>> >>)])

RECURSIVE CollectCards(_, _, _)
\* the loop over new_cards: a card with an identifier seen before is
\* skipped, and the loop ends when the limit is reached
CollectCards(new_cards, lim, acc) ==
    IF new_cards = <<>> THEN acc
    ELSE LET urn == Get(Head(new_cards), K_entityUrn)
         IN  IF Truthy(urn) /\ urn \in acc.seen
             THEN CollectCards(Tail(new_cards), lim, acc)
             ELSE IF Truthy(lim) /\ Len(acc.collected) + 1 >= lim.v
             THEN [collected |-> Append(acc.collected, Head(new_cards)),
                   seen |-> IF Truthy(urn) THEN acc.seen \cup {urn} ELSE acc.seen]
             ELSE CollectCards(Tail(new_cards), lim,
                               [collected |-> Append(acc.collected, Head(new_cards)),
                                seen |-> IF Truthy(urn) THEN acc.seen \cup {urn}
                                         ELSE acc.seen])

\* payload.get("data", {}).get("metadata", {}).get("nextStart"):
\* AttributeError when data or metadata is not a dict
NextStart(payload) ==
    LET data == GetOr(payload, K_data, PDict(<<>>))
    IN  IF ~IsDict(data) THEN Raise("AttributeError")
        ELSE IF ~IsDict(GetOr(data, K_metadata, PDict(<<>>))) THEN Raise("AttributeError")
        ELSE Get(GetOr(data, K_metadata, PDict(<<>>)), K_nextStart)

\* faulty variant: an offset that does not move is followed too
Advances_OrEqual(next_start, cur) == ~IsNone(next_start) /\ next_start.v >= cur

\* the negation of: next_start is None or next_start <= start
Advances(next_start, cur) == ~IsNone(next_start) /\ next_start.v > cur

\* the state of a run of fetch_cards
CardsRun(t, cur, cards, seenSet, fetched, answers, v) ==
    [t |-> t, start |-> cur, collected |-> cards, seen |-> seenSet,
     fetched |-> fetched, answers |-> answers, v |-> v]

\* start = 0, collected = [], seen = set()
InitCards ==
    /\ call \in {[fn |-> "fetch_cards", limit |-> lim] :
                    lim \in {PNone} \cup {PInt(n) : n \in 0..MaxLimit}}
    /\ ret = CardsRun("run", 0, <<>>, {}, <<>>, <<>>, <<>>)
    /\ Idle

\* what a page answered: its nextStart and the cards collected after it
Answer(next_start, acc) == [next_start |-> next_start, total |-> Len(acc.collected)]

\* One iteration of the while loop on the page the fetch returned, followed
\* by the return when the iteration breaks out of the loop.
CardsIterate(payload) ==
    /\ call.fn = "fetch_cards" /\ ret.t = "run"
    /\ \E new_cards \in {extract_cards(payload)}, next_start \in {NextStart(payload)} :
          IF IsRaise(new_cards)
          THEN ret' = [ret EXCEPT !.t = "raised", !.fetched = Append(@, ret.start)]
          ELSE \E acc \in {CollectCards(new_cards.v, call.limit,
                                        [collected |-> ret.collected, seen |-> ret.seen])} :
                 IF Truthy(call.limit) /\ Len(acc.collected) >= call.limit.v
                 THEN ret' = CardsRun("ret", ret.start, acc.collected, acc.seen,
                                      Append(ret.fetched, ret.start),
                                      Append(ret.answers, Answer(next_start, acc)),
                                      Prefix(acc.collected, call.limit.v))
                 ELSE IF IsRaise(next_start)
                         \/ (~IsNone(next_start) /\ next_start.t # "int")
                 THEN ret' = CardsRun("raised", ret.start, acc.collected, acc.seen,
                                      Append(ret.fetched, ret.start),
                                      Append(ret.answers, Answer(next_start, acc)), <<>>)
                 ELSE IF Advances(next_start, ret.start)
                 THEN ret' = CardsRun("run", next_start.v, acc.collected, acc.seen,
                                      Append(ret.fetched, ret.start),
                                      Append(ret.answers, Answer(next_start, acc)), <<>>)
                 ELSE ret' = CardsRun("ret", ret.start, acc.collected, acc.seen,
                                      Append(ret.fetched, ret.start),
                                      Append(ret.answers, Answer(next_start, acc)),
                                      IF Truthy(call.limit)
                                      THEN Prefix(acc.collected, call.limit.v)
                                      ELSE acc.collected)
    /\ UNCHANGED <<call, driverVars>>

\* fetch_notification_page raises (transport error, HTTP error status or a
\* body that is not JSON); the exception leaves fetch_cards
CardsFetchFails ==
    /\ call.fn = "fetch_cards" /\ ret.t = "run"
    /\ ret' = [ret EXCEPT !.t = "raised", !.fetched = Append(@, ret.start)]
    /\ UNCHANGED <<call, driverVars>>

Card(urn) == PDict(<< <<K_dtype, PStr(S_Card)>> >> \o Field(K_entityUrn, urn))

\* the upstream: pages with no card, with new, repeated and unnamed cards and
\* other records; nextStart left out (None), a number up to MaxStart, or not
\* a number; and a page whose data is null
CardPages ==
    {PDict(<< <<K_included, PList(inc)>>,
              <<K_data, PDict(<< <<K_metadata, PDict(Field(K_nextStart, ns))>> >>)>> >>) :
        inc \in { <<>>, <<Card(PStr(URN_C1)), E_U1, Card(PStr(URN_C2))>>,
                  <<Card(PStr(URN_C1)), Card(PNone)>> },
        ns \in {PNone, PStr(S_a)} \cup {PInt(n) : n \in 0..MaxStart}}
    \cup {PDict(<< <<K_included, PList(<<>>)>>, <<K_data, PNone>> >>)}

NextCards ==
    \/ \E payload \in CardPages : CardsIterate(payload)
    \/ CardsFetchFails

SpecCards == InitCards /\ [][NextCards]_vars

\* the limit is reached after page k
LimitReachedAt(k) == Truthy(call.limit) /\ ret.answers[k].total >= call.limit.v

\* page k gave no nextStart, or one that is not greater than its offset
NoGreaterStartAt(k) ==
    \/ IsNone(ret.answers[k].next_start)
    \/ /\ ret.answers[k].next_start.t = "int"
       /\ ret.answers[k].next_start.v <= ret.fetched[k]

\* C33: the offsets of the successive fetches of fetch_cards are strictly
\* increasing, starting at 0: a page is followed by a fetch only when its
\* nextStart is present and greater than its own offset, and then the next
\* fetch is at that nextStart; the run returns at the first page whose
\* nextStart is missing or not greater, or after which the limit is reached.
C33_OffsetsStrictlyIncrease ==
    call.fn = "fetch_cards"
        => /\ \A k \in 1..Len(ret.fetched) :
                 ret.fetched[k] = IF k = 1 THEN 0 ELSE ret.answers[k - 1].next_start.v
           /\ \A k \in 1..(Len(ret.fetched) - 1) :
                 /\ ret.fetched[k] < ret.fetched[k + 1]
                 /\ ~NoGreaterStartAt(k) /\ ~LimitReachedAt(k)
           /\ \A k \in 1..Len(ret.answers) :
                 (NoGreaterStartAt(k) \/ LimitReachedAt(k))
                     => ret.t = "ret" /\ k = Len(ret.fetched)

\* a run of three fetches at 0, 1 and 3 that ended on a page whose nextStart
\* fell back to 2
C33_Witness ==
    /\ call.fn = "fetch_cards" /\ ret.t = "ret"
    /\ ret.fetched = <<0, 1, 3>>
    /\ ret.answers[3].next_start = PInt(2)

====
